---------------------------- MODULE Spec2Model ----------------------------
(***************************************************************************)
(* Model of the EPD matching pipeline of tobiasbartlog/EC3_EPD_Matcher:    *)
(* material parsing (utils/asphalt_glossar.py), pre-filtering and          *)
(* confidence validation (matching/epd_filter.py), response parsing and    *)
(* aggregation (matching/azure_matcher.py) and the batch driver (main.py). *)
(*                                                                         *)
(* Python strings are TLA+ strings; `x in s`, lower(), upper() and strip() *)
(* are computed character by character.  Python's None is NONE for string  *)
(* valued fields and NoneInt for integer valued fields.                    *)
(***************************************************************************)
EXTENDS Integers, Sequences, FiniteSets, TLC

(***************************************************************************)
(* Python string primitives                                                *)
(***************************************************************************)
NONE == "<None>"

NoneInt == -1

CharAt(s, i) == SubSeq(s, i, i)

\* the list a loop or comprehension builds: every element computed, once
List(f) == SubSeq(f, 1, Len(f))

\* F applied to the value v of a local variable, v computed once
With(v, F(_)) == F(v)

\* the elements of seq at the indices ks, in order
Pick(seq, ks) ==
    [n \in 1..Cardinality(ks) |->
        seq[CHOOSE k \in ks : Cardinality({j \in ks : j <= k}) = n]]

\* str.lower() and str.upper(), letter by letter
LowerTable ==
       ("A" :> "a") @@ ("B" :> "b") @@ ("C" :> "c") @@ ("D" :> "d") @@ ("E" :> "e") @@ ("F" :> "f")
     @@ ("G" :> "g") @@ ("H" :> "h") @@ ("I" :> "i") @@ ("J" :> "j") @@ ("K" :> "k") @@ ("L" :> "l")
     @@ ("M" :> "m") @@ ("N" :> "n") @@ ("O" :> "o") @@ ("P" :> "p") @@ ("Q" :> "q") @@ ("R" :> "r")
     @@ ("S" :> "s") @@ ("T" :> "t") @@ ("U" :> "u") @@ ("V" :> "v") @@ ("W" :> "w") @@ ("X" :> "x")
     @@ ("Y" :> "y") @@ ("Z" :> "z") @@ ("Ä" :> "ä") @@ ("Ö" :> "ö") @@ ("Ü" :> "ü")

\* the sharp s has no single upper-case letter and becomes "SS"
UpperTable ==
       ("a" :> "A") @@ ("b" :> "B") @@ ("c" :> "C") @@ ("d" :> "D") @@ ("e" :> "E") @@ ("f" :> "F")
     @@ ("g" :> "G") @@ ("h" :> "H") @@ ("i" :> "I") @@ ("j" :> "J") @@ ("k" :> "K") @@ ("l" :> "L")
     @@ ("m" :> "M") @@ ("n" :> "N") @@ ("o" :> "O") @@ ("p" :> "P") @@ ("q" :> "Q") @@ ("r" :> "R")
     @@ ("s" :> "S") @@ ("t" :> "T") @@ ("u" :> "U") @@ ("v" :> "V") @@ ("w" :> "W") @@ ("x" :> "X")
     @@ ("y" :> "Y") @@ ("z" :> "Z") @@ ("ä" :> "Ä") @@ ("ö" :> "Ö") @@ ("ü" :> "Ü") @@ ("ß" :> "SS")

IndexIn(c, alphabet) ==
    IF \E i \in 1..Len(alphabet) : CharAt(alphabet, i) = c
    THEN CHOOSE i \in 1..Len(alphabet) :
             CharAt(alphabet, i) = c /\ \A j \in 1..(i - 1) : CharAt(alphabet, j) # c
    ELSE 0

LowerChar(c) == IF c \in DOMAIN LowerTable THEN LowerTable[c] ELSE c

UpperChar(c) == IF c \in DOMAIN UpperTable THEN UpperTable[c] ELSE c

RECURSIVE lower(_)
lower(s) == IF s = "" THEN "" ELSE LowerChar(CharAt(s, 1)) \o lower(SubSeq(s, 2, Len(s)))

RECURSIVE upper(_)
upper(s) == IF s = "" THEN "" ELSE UpperChar(CharAt(s, 1)) \o upper(SubSeq(s, 2, Len(s)))

IsSpace(c) == c \in {" ", "\t", "\n", "\r"}

IsDigit(c) == c \in {"0", "1", "2", "3", "4", "5", "6", "7", "8", "9"}

\* first position >= i of s that holds no whitespace (Len(s)+1 when there is none)
RECURSIVE SkipSpace(_, _)
SkipSpace(s, i) == IF i <= Len(s) /\ IsSpace(CharAt(s, i)) THEN SkipSpace(s, i + 1) ELSE i

RECURSIVE SkipDigits(_, _)
SkipDigits(s, i) == IF i <= Len(s) /\ IsDigit(CharAt(s, i)) THEN SkipDigits(s, i + 1) ELSE i

RECURSIVE LastNonSpace(_, _)
LastNonSpace(s, j) == IF j >= 1 /\ IsSpace(CharAt(s, j)) THEN LastNonSpace(s, j - 1) ELSE j

strip(s) == SubSeq(s, SkipSpace(s, 1), LastNonSpace(s, Len(s)))

\* `sub in text`
Contains(sub, text) ==
    \E i \in 1..(Len(text) - Len(sub) + 1) : SubSeq(text, i, i + Len(sub) - 1) = sub

StartsWithAt(s, i, prefix) ==
    /\ i + Len(prefix) - 1 <= Len(s)
    /\ SubSeq(s, i, i + Len(prefix) - 1) = prefix

DigitValue(c) == IndexIn(c, "0123456789") - 1

\* int() of a run of decimal digits
RECURSIVE DigitsToInt(_)
DigitsToInt(s) ==
    IF s = "" THEN 0
    ELSE 10 * DigitsToInt(SubSeq(s, 1, Len(s) - 1)) + DigitValue(CharAt(s, Len(s)))

\* str() of an integer
RECURSIVE NatToStr(_)
NatToStr(n) ==
    IF n < 10 THEN CharAt("0123456789", n + 1)
    ELSE NatToStr(n \div 10) \o CharAt("0123456789", (n % 10) + 1)

IntToStr(n) == IF n < 0 THEN "-" \o NatToStr(-n) ELSE NatToStr(n)

\* any(f(x) for x in seq)
AnyIn(seq, text) == \E k \in 1..Len(seq) : Contains(seq[k], text)

Min(a, b) == IF a <= b THEN a ELSE b

Max(a, b) == IF a >= b THEN a ELSE b

(***************************************************************************)
(* Glossary tables (utils/asphalt_glossar.py)                              *)
(***************************************************************************)
TypeOrder == <<"AC", "SMA", "MA", "PA">>

ASPHALT_TYPES ==
    [AC  |-> [suchbegriffe  |-> <<"Asphaltbeton", "Asphalt", "Bitumen", "bituminös",
                                  "Asphaltmischgut", "Heißasphalt", "Walzasphalt">>,
              fuzzy_matches |-> <<"aspahlt", "asphalt", "bitumen", "bituminös">>],
     SMA |-> [suchbegriffe  |-> <<"Splittmastixasphalt", "Splittmastix", "SMA",
                                  "Stone Mastic", "Mastixasphalt">>,
              fuzzy_matches |-> <<"splittmastix", "sma", "mastix">>],
     MA  |-> [suchbegriffe  |-> <<"Gussasphalt", "Mastic Asphalt", "Asphaltmastix",
                                  "Gießasphalt", "MA">>,
              fuzzy_matches |-> <<"gussasphalt", "gießasphalt", "mastic">>],
     PA  |-> [suchbegriffe  |-> <<"Offenporiger Asphalt", "OPA", "Drainasphalt",
                                  "Porous Asphalt", "Drainageschicht", "lärmmindernd",
                                  "Flüsterasphalt", "PA">>,
              fuzzy_matches |-> <<"offenporig", "drainasphalt", "opa", "flüsterasphalt">>]]

LayerOrder == <<"T", "B", "D", "TD">>

LAYER_CODES ==
    [T  |-> [epd_muss_enthalten |-> "Trag",
             name_varianten     |-> <<"tragschicht", "trag">>],
     B  |-> [epd_muss_enthalten |-> "Binder",
             name_varianten     |-> <<"binderschicht", "binder">>],
     D  |-> [epd_muss_enthalten |-> "Deck",
             name_varianten     |-> <<"deckschicht", "deck", "decke", "verschleiß">>],
     TD |-> [epd_muss_enthalten |-> "Tragdeck",
             name_varianten     |-> <<"tragdeckschicht", "tragdeck">>]]

PMB_KEYWORDS == <<"PMB", "POLYMER", "MODIFIZIERT", "ELASTOMER",
                  "10/40-65", "25/55-55", "45/80-50", "40/100-65">>

AUSSCHLUSS_BEGRIFFE ==
    <<"Betonpflaster", "Pflasterstein", "Betonstein", "Betonsteinpflaster",
      "Verbundpflaster",
      "C20/25", "C25/30", "C30/37", "C35/45", "C40/50", "C45/55", "C50/60",
      "Mörtel", "Estrich", "Kalksandstein", "Mauerwerk", "Ziegel",
      "Anhydrit", "Gips", "HGT">>

(***************************************************************************)
(* parse_material_input and its helpers                                    *)
(***************************************************************************)
_ist_polymermodifiziert(text) == AnyIn(PMB_KEYWORDS, upper(text))

_ist_generisch_asphalt(text) ==
    AnyIn(<<"asphalt", "aspahlt", "bitumen", "bituminös", "bituminos",
            "schwarzdecke", "heißmischgut">>, lower(text))

\* first index k of 1..n with Hit(k), 0 when there is none
FirstHit(n, Hit(_)) ==
    IF \E k \in 1..n : Hit(k)
    THEN CHOOSE k \in 1..n : Hit(k) /\ \A j \in 1..(k - 1) : ~Hit(j)
    ELSE 0

\* first key of the dict order, one of whose keywords (field of its entry) is in t
FirstKey(order, keywords(_), t) ==
    With(FirstHit(Len(order), LAMBDA k : AnyIn(keywords(order[k]), t)),
         LAMBDA k : IF k = 0 THEN NONE ELSE order[k])

\* a scan of the types from the last to the first
_fuzzy_match_reversed(text) ==
    FirstKey(<<"PA", "MA", "SMA", "AC">>,
             LAMBDA code : ASPHALT_TYPES[code].fuzzy_matches, lower(text))

\* first type code, in dict order, one of whose fuzzy keywords is in the text
_fuzzy_match_asphalt_type(text) ==
    FirstKey(TypeOrder, LAMBDA code : ASPHALT_TYPES[code].fuzzy_matches, lower(text))

\* a scan of the layer codes that tries the combined course first
_schicht_aus_name_td_zuerst(schicht_name) ==
    FirstKey(<<"TD", "T", "B", "D">>,
             LAMBDA code : LAYER_CODES[code].name_varianten, lower(schicht_name))

\* first layer code, in dict order, one of whose name variants is in the name
_schicht_aus_name(schicht_name) ==
    FirstKey(LayerOrder, LAMBDA code : LAYER_CODES[code].name_varianten, lower(schicht_name))

\* the first alternative that stands at position i as a word of its own
AlternativeAsWord(s, i, alternatives) ==
    With(FirstHit(Len(alternatives),
                  LAMBDA k : /\ StartsWithAt(s, i, alternatives[k])
                             /\ \/ i + Len(alternatives[k]) > Len(s)
                                \/ IsSpace(CharAt(s, i + Len(alternatives[k])))),
         LAMBDA k : IF k = 0 THEN NONE ELSE alternatives[k])

\* the first alternative of the list that the text has at position i, else NONE
Alternative(s, i, alternatives) ==
    With(FirstHit(Len(alternatives), LAMBDA k : StartsWithAt(s, i, alternatives[k])),
         LAMBDA k : IF k = 0 THEN NONE ELSE alternatives[k])

\* the result of a match whose groups are typ, the digits bez[p1..p2-1], g3 and g4
NormierteBezeichnung(bezeichnung, bez, typ, p1, p2, g3, g4) ==
    IF typ = NONE \/ p2 = p1
    THEN [matched |-> FALSE, typ |-> NONE, groesstkorn_mm |-> NoneInt,
          schicht |-> NONE, beanspruchung |-> NONE, ist_pmb |-> FALSE,
          schicht_epd_muss_enthalten |-> NONE]
    ELSE With(IF typ \in {"SMA", "MA", "PA"} /\ g3 = NONE THEN "D" ELSE g3,
              LAMBDA schicht :
                  [matched |-> TRUE, typ |-> typ,
                   groesstkorn_mm |-> DigitsToInt(SubSeq(bez, p1, p2 - 1)),
                   schicht |-> schicht, beanspruchung |-> g4,
                   ist_pmb |-> _ist_polymermodifiziert(bezeichnung),
                   schicht_epd_muss_enthalten |->
                       IF schicht = NONE THEN NONE
                       ELSE LAYER_CODES[schicht].epd_muss_enthalten])

\* the same pattern matched on the designation as written
_parse_bezeichnung_wie_geschrieben(bezeichnung) ==
    With(bezeichnung, LAMBDA bez :
    With(Alternative(bez, 1, <<"AC", "SMA", "MA", "PA">>), LAMBDA typ :
    With(SkipSpace(bez, Len(typ) + 1), LAMBDA p1 :
    With(SkipDigits(bez, p1), LAMBDA p2 :
    With(SkipSpace(bez, p2), LAMBDA p3 :
    With(Alternative(bez, p3, <<"TD", "T", "B", "D">>), LAMBDA g3 :
    With(SkipSpace(bez, IF g3 = NONE THEN p3 ELSE p3 + Len(g3)), LAMBDA p5 :
        NormierteBezeichnung(bezeichnung, bez, typ, p1, p2, g3,
                             Alternative(bez, p5, <<"S", "N", "L">>)))))))))

\* re.match(r"(AC|SMA|MA|PA)\s*(\d+)\s*(TD|T|B|D)?\s*([SNL])?", bez.upper().strip())
\* matched = FALSE models the None result.
_parse_normierte_bezeichnung(bezeichnung) ==
    With(strip(upper(bezeichnung)), LAMBDA bez :
    With(Alternative(bez, 1, <<"AC", "SMA", "MA", "PA">>), LAMBDA typ :
    With(SkipSpace(bez, Len(typ) + 1), LAMBDA p1 :
    With(SkipDigits(bez, p1), LAMBDA p2 :
    With(SkipSpace(bez, p2), LAMBDA p3 :
    With(Alternative(bez, p3, <<"TD", "T", "B", "D">>), LAMBDA g3 :
    With(SkipSpace(bez, IF g3 = NONE THEN p3 ELSE p3 + Len(g3)), LAMBDA p5 :
        NormierteBezeichnung(bezeichnung, bez, typ, p1, p2, g3,
                             Alternative(bez, p5, <<"S", "N", "L">>)))))))))

\* the result when the designation matched the grammar
VonBezeichnung(material_name, schicht_name, parsed) ==
    [material_original |-> material_name,
     schicht_name_original |-> schicht_name,
     typ |-> parsed.typ, schicht |-> parsed.schicht,
     schicht_epd_muss_enthalten |-> parsed.schicht_epd_muss_enthalten,
     groesstkorn_mm |-> parsed.groesstkorn_mm,
     beanspruchung |-> parsed.beanspruchung,
     ist_pmb |-> parsed.ist_pmb, ist_asphalt |-> TRUE,
     quelle |-> "bezeichnung"]

\* the result when it did not: the type by fuzzy keyword or generic asphalt
\* term, the layer by the layer name
VonFuzzy(material_name, schicht_name, fuzzy_typ, generisch, schicht_code) ==
    [material_original |-> material_name,
     schicht_name_original |-> schicht_name,
     typ |-> IF fuzzy_typ # NONE THEN fuzzy_typ
             ELSE IF generisch THEN "AC" ELSE NONE,
     schicht |-> schicht_code,
     schicht_epd_muss_enthalten |->
         IF schicht_code = NONE THEN NONE
         ELSE LAYER_CODES[schicht_code].epd_muss_enthalten,
     groesstkorn_mm |-> NoneInt,
     beanspruchung |-> NONE,
     ist_pmb |-> _ist_polymermodifiziert(material_name),
     ist_asphalt |-> fuzzy_typ # NONE \/ generisch,
     quelle |-> IF fuzzy_typ # NONE \/ generisch THEN "fuzzy"
                ELSE IF schicht_code # NONE THEN "schichtname"
                ELSE "unbekannt"]

parse_material_input(material_name, schicht_name) ==
    With(_parse_normierte_bezeichnung(material_name), LAMBDA parsed :
        IF parsed.matched
        THEN VonBezeichnung(material_name, schicht_name, parsed)
        ELSE With(_fuzzy_match_asphalt_type(material_name), LAMBDA fuzzy_typ :
                 VonFuzzy(material_name, schicht_name, fuzzy_typ,
                          fuzzy_typ = NONE /\ _ist_generisch_asphalt(material_name),
                          IF schicht_name \in {NONE, ""} THEN NONE
                          ELSE _schicht_aus_name(schicht_name))))

(***************************************************************************)
(* Catalog entries and the pre-filter (utils/asphalt_glossar.py,           *)
(* matching/epd_filter.py: EPDFilter)                                      *)
(***************************************************************************)
\* the value of `epd_by_id.get(epd_id, {})` for an unknown id: every .get() on
\* it yields its default
NoEpd == [id |-> NoneInt, name |-> "", klassifizierung |-> ""]

\* f"{epd_name} {epd_klassifizierung}" of the lower-cased fields
EpdCombined(epd) == lower(epd.name) \o " " \o lower(epd.klassifizierung)

LowerAll(seq) == List([k \in 1..Len(seq) |-> lower(seq[k])])

\* excl.lower() for excl in AUSSCHLUSS_BEGRIFFE
AusschlussLower == LowerAll(AUSSCHLUSS_BEGRIFFE)

_ist_ausgeschlossen(text) == AnyIn(AusschlussLower, lower(text))

Take(seq, n) == SubSeq(seq, 1, Min(Len(seq), n))

\* the loop's test of one entry: not excluded, and a generic asphalt term or
\* one of the type's search terms in its text
Kept(combined, typ_begriffe) ==
    /\ ~_ist_ausgeschlossen(combined)
    /\ (_ist_generisch_asphalt(combined) \/ AnyIn(typ_begriffe, combined))

\* "p" for the primary list, "s" for the secondary list, "" for neither
Einordnung(combined, typ_begriffe, schicht_muss) ==
    IF ~Kept(combined, typ_begriffe) THEN ""
    ELSE IF schicht_muss # "" /\ Contains(schicht_muss, combined) THEN "p"
    ELSE "s"

\* the entries of one class, in catalog order
Klasse(epds, klassen, klasse) == Pick(epds, {k \in 1..Len(epds) : klassen[k] = klasse})

\* each list cut to max_epds on its own
BegrenztJeListe(primaer, sekundaer, max_epds) ==
    [raised |-> "", primaer |-> Take(primaer, max_epds),
     sekundaer |-> Take(sekundaer, max_epds)]

\* primaer[:max_epds], then sekundaer up to the remaining room
Begrenzt(primaer, sekundaer, max_epds) ==
    IF Len(primaer) >= max_epds
    THEN [raised |-> "", primaer |-> Take(primaer, max_epds), sekundaer |-> <<>>]
    ELSE [raised |-> "", primaer |-> primaer,
          sekundaer |-> Take(sekundaer, max_epds - Len(primaer))]

\* raised = "AttributeError" models None.lower() on an unset layer keyword
filter_epds_for_material(epds, parsed_material, max_epds) ==
    IF ~parsed_material.ist_asphalt
    THEN [raised |-> "", primaer |-> Take(epds, max_epds), sekundaer |-> <<>>]
    ELSE IF parsed_material.schicht_epd_muss_enthalten = NONE
    THEN [raised |-> "AttributeError", primaer |-> <<>>, sekundaer |-> <<>>]
    ELSE
    With(lower(parsed_material.schicht_epd_muss_enthalten), LAMBDA schicht_muss :
    With(IF parsed_material.typ # NONE
         THEN LowerAll(ASPHALT_TYPES[parsed_material.typ].suchbegriffe)
         ELSE <<>>, LAMBDA typ_begriffe :
    With(List([k \in 1..Len(epds) |->
                  Einordnung(EpdCombined(epds[k]), typ_begriffe, schicht_muss)]),
         LAMBDA klassen :
             Begrenzt(List(Klasse(epds, klassen, "p")), List(Klasse(epds, klassen, "s")),
                      max_epds))))

\* the ids of the entries of a list
IdSet(epds) == {epds[k].id : k \in 1..Len(epds)}

\* [epd for epd in all_epds if epd.get("id") in all_relevant_ids]
WithIds(all_epds, ids) == Pick(all_epds, {k \in 1..Len(all_epds) : all_epds[k].id \in ids})

\* EPDFilter.filter_for_materials: result["combined_epds"]
filter_for_materials(all_epds, materials, max_epds) ==
    With(List([idx \in 1..Len(materials) |->
                  filter_epds_for_material(
                      all_epds,
                      parse_material_input(materials[idx].material_name,
                                           materials[idx].NAME),
                      max_epds)]),
         LAMBDA per :
             IF \E idx \in 1..Len(materials) : per[idx].raised # ""
             THEN [raised |-> "AttributeError", combined_epds |-> <<>>]
             ELSE [raised |-> "",
                   combined_epds |->
                       List(WithIds(all_epds,
                                    UNION {IdSet(per[idx].primaer) \cup IdSet(per[idx].sekundaer)
                                           : idx \in 1..Len(materials)}))])

(***************************************************************************)
(* ConfidenceValidator (matching/epd_filter.py)                            *)
(***************************************************************************)
MATERIAL_MISMATCHES ==
    [asphalt  |-> <<"bitumenbahn", "bitumenbahnen", "dachbahn", "dachabdichtung",
                    "schweißbahn", "kaltselbstklebebahn", "dampfsperre", "emulsion">>,
     schotter |-> <<"bitumenbahn", "bitumenbahnen", "asphalt", "gussasphalt",
                    "emulsion", "dampfsperre">>,
     daemmung |-> <<"bitumenbahn", "bitumenbahnen", "asphalt", "gussasphalt",
                    "schotter", "kies", "splitt", "emulsion">>]

_get_material_type(parsed_material) ==
    LET combined == lower(parsed_material.material_original) \o " " \o
                    lower(parsed_material.schicht_name_original)
    IN  IF parsed_material.ist_asphalt THEN "asphalt"
        ELSE IF AnyIn(<<"schotter", "kies", "splitt", "frostschutz">>, combined)
        THEN "schotter"
        ELSE IF AnyIn(<<"dämm", "xps", "eps", "pur", "pir", "mineralwolle">>, combined)
        THEN "daemmung"
        ELSE NONE

_ist_gleicher_material_typ(epd_combined, parsed_material) ==
    parsed_material.ist_asphalt /\ AnyIn(<<"asphalt", "bituminös">>, epd_combined)

\* a cascade that consults the layer and asphalt rules before the other two
ValidateRuleLayerFirst(combined, parsed_material) ==
    IF /\ parsed_material.schicht_epd_muss_enthalten \notin {NONE, ""}
       /\ ~Contains(lower(parsed_material.schicht_epd_muss_enthalten), combined)
    THEN 3
    ELSE IF parsed_material.ist_asphalt
            /\ ~AnyIn(<<"asphalt", "bitumen", "bituminös">>, combined)
    THEN 4
    ELSE IF AnyIn(AusschlussLower, combined)
    THEN 1
    ELSE IF With(_get_material_type(parsed_material), LAMBDA material_type :
                 material_type # NONE /\ AnyIn(MATERIAL_MISMATCHES[material_type], combined))
    THEN 2
    ELSE 0

\* The rule of the cascade that decides: 1 excluded term, 2 category mismatch,
\* 3 layer keyword absent, 4 no asphalt keyword, 0 none.  combined is the
\* entry's lower-cased text.
ValidateRule(combined, parsed_material) ==
    IF AnyIn(AusschlussLower, combined)
    THEN 1
    ELSE IF With(_get_material_type(parsed_material), LAMBDA material_type :
                 material_type # NONE /\ AnyIn(MATERIAL_MISMATCHES[material_type], combined))
    THEN 2
    ELSE IF /\ parsed_material.schicht_epd_muss_enthalten \notin {NONE, ""}
            /\ ~Contains(lower(parsed_material.schicht_epd_muss_enthalten), combined)
    THEN 3
    ELSE IF parsed_material.ist_asphalt
            /\ ~AnyIn(<<"asphalt", "bitumen", "bituminös">>, combined)
    THEN 4
    ELSE 0

\* the ceiling `min(gpt_confidence, cap)` of the deciding rule
ValidateCap(rule, combined, parsed_material) ==
    CASE rule = 1 -> 25
      [] rule = 2 -> 20
      [] rule = 3 -> IF _ist_gleicher_material_typ(combined, parsed_material)
                     THEN 60 ELSE 35
      [] rule = 4 -> 35
      [] OTHER    -> 100

\* first keyword of the list that is in the text (the loop's first hit)
FirstIn(seq, text) == seq[FirstHit(Len(seq), LAMBDA k : Contains(seq[k], text))]

\* the reason string returned with the corrected confidence
ValidateGrund(rule, combined, parsed_material) ==
    CASE rule = 1 ->
           "Ausschluss-Begriff '"
           \o AUSSCHLUSS_BEGRIFFE[FirstHit(Len(AusschlussLower),
                                           LAMBDA k : Contains(AusschlussLower[k], combined))]
           \o "' gefunden"
      [] rule = 2 ->
           With(_get_material_type(parsed_material), LAMBDA material_type :
               "'" \o FirstIn(MATERIAL_MISMATCHES[material_type], combined)
                   \o "' passt nicht zu " \o material_type)
      [] rule = 3 ->
           "Schicht-Begriff '" \o parsed_material.schicht_epd_muss_enthalten \o "' fehlt"
               \o (IF _ist_gleicher_material_typ(combined, parsed_material)
                   THEN "" ELSE " + falscher Typ")
      [] rule = 4 -> "Kein Asphalt-Bezug im EPD"
      [] OTHER    -> "Validiert"

\* a validator that returns the rule's ceiling whatever the raw value is
validate_match_ceiling(epd, parsed_material, gpt_confidence) ==
    With(EpdCombined(epd), LAMBDA combined :
         [raised |-> "",
          confidence |-> ValidateCap(ValidateRule(combined, parsed_material),
                                     combined, parsed_material),
          grund |-> "Validiert"])

\* min(None, cap) raises TypeError; without a rule the value is passed through
validate_match(epd, parsed_material, gpt_confidence) ==
    With(EpdCombined(epd), LAMBDA combined :
    With(ValidateRule(combined, parsed_material), LAMBDA rule :
        IF rule = 0
        THEN [raised |-> "", confidence |-> gpt_confidence, grund |-> "Validiert"]
        ELSE IF gpt_confidence = NoneInt
        THEN [raised |-> "TypeError", confidence |-> NoneInt, grund |-> ""]
        ELSE [raised |-> "",
              confidence |-> Min(gpt_confidence, ValidateCap(rule, combined, parsed_material)),
              grund |-> ValidateGrund(rule, combined, parsed_material)]))

\* a lookup that falls back to the first entry of the list for an unknown id
EpdByIdOrFirst(epds, epd_id) ==
    With({k \in 1..Len(epds) : IntToStr(epds[k].id) = epd_id}, LAMBDA ks :
         IF ks = {} THEN (IF epds = <<>> THEN NoEpd ELSE epds[1])
         ELSE epds[CHOOSE k \in ks : \A j \in ks : j <= k])

\* epd_by_id.get(epd_id, {}): of entries with one id the dict keeps the last
EpdById(epds, epd_id) ==
    With({k \in 1..Len(epds) : IntToStr(epds[k].id) = epd_id}, LAMBDA ks :
         IF ks = {} THEN NoEpd ELSE epds[CHOOSE k \in ks : \A j \in ks : j <= k])

\* a sort that leaves the list as it is
KeepOrder(matches) == matches

\* list.sort(key=confidence, reverse=True): stable, equal keys keep their order.
\* Insert puts m behind the entries of front that are not below it.
Insert(front, m) ==
    With(Cardinality({k \in 1..Len(front) : front[k].confidence >= m.confidence}),
         LAMBDA n : SubSeq(front, 1, n) \o <<m>> \o SubSeq(front, n + 1, Len(front)))

RECURSIVE SortByConfidenceDesc(_)
SortByConfidenceDesc(matches) ==
    IF matches = <<>> THEN <<>>
    ELSE Insert(SortByConfidenceDesc(SubSeq(matches, 1, Len(matches) - 1)),
                matches[Len(matches)])

\* The drop threshold of validate_batch_results, a literal of the code
DropBelow == 25

\* the match as validated: validated_match, with the reason appended and
\* the confidence replaced when the validator changed it
Validated(match, v) ==
    [uuid |-> match.uuid,
     begruendung |-> IF v.confidence # match.confidence
                     THEN match.begruendung \o " [Korrigiert: " \o v.grund \o "]"
                     ELSE match.begruendung,
     confidence |-> v.confidence]

\* a pass that drops a match at the threshold too: `new_confidence <= 25`
ValidateOneDropAtThreshold(match, parsed, epds) ==
    With(validate_match(EpdById(epds, match.uuid), parsed, match.confidence), LAMBDA v :
        IF v.raised # "" \/ v.confidence = NoneInt
        THEN [raised |-> "TypeError", keep |-> FALSE, match |-> match]
        ELSE [raised |-> "", keep |-> ~(v.confidence <= DropBelow),
              match |-> Validated(match, v)])

\* one pass of `for match in matches`: the validation of one match;
\* `new_confidence < 25` raises TypeError for an unset confidence
ValidateOne(match, parsed, epds) ==
    With(validate_match(EpdById(epds, match.uuid), parsed, match.confidence), LAMBDA v :
        IF v.raised # "" \/ v.confidence = NoneInt
        THEN [raised |-> "TypeError", keep |-> FALSE, match |-> match]
        ELSE [raised |-> "", keep |-> ~(v.confidence < DropBelow),
              match |-> Validated(match, v)])

\* the validated matches that were kept, sorted
KeptSorted(per) ==
    SortByConfidenceDesc(List(Pick([k \in 1..Len(per) |-> per[k].match],
                                   {k \in 1..Len(per) : per[k].keep})))

\* one pass of `for schicht_idx, matches in enumerate(matches_per_schicht)`
ValidateSchicht(matches, material, epds) ==
    With(parse_material_input(material.material_name, material.NAME), LAMBDA parsed :
    With(List([k \in 1..Len(matches) |-> ValidateOne(matches[k], parsed, epds)]),
         LAMBDA per :
             IF \E k \in 1..Len(matches) : per[k].raised # ""
             THEN [raised |-> "TypeError", matches |-> <<>>]
             ELSE [raised |-> "", matches |-> KeptSorted(per)]))

\* a material of an index beyond the list is {}: empty name and hint
NoMaterial == [material_name |-> "", NAME |-> ""]

validate_batch_results(matches_per_schicht, materials, epds) ==
    With(List([i \in 1..Len(matches_per_schicht) |->
                  ValidateSchicht(matches_per_schicht[i],
                                  IF i <= Len(materials) THEN materials[i] ELSE NoMaterial,
                                  epds)]),
         LAMBDA per :
             IF \E i \in 1..Len(matches_per_schicht) : per[i].raised # ""
             THEN [raised |-> "TypeError", results |-> <<>>]
             ELSE [raised |-> "",
                   results |-> List([i \in 1..Len(matches_per_schicht) |-> per[i].matches])])

(***************************************************************************)
(* JSON texts.  A text is the sequence of its lexical tokens: punctuation, *)
(* string literals (written with their quotes), numbers, null/true/false   *)
(* and, outside JSON, prose words and the Markdown fence.  json.loads is the    *)
(* recursive-descent decoder below; a decoded value is a record tagged by  *)
(* t: "obj" (m: members in text order), "arr" (a), "str" (s), "int" (n),   *)
(* "float" (n: the integral part, whole: no fraction, s: its text), "inf", *)
(* "nan", "bool" (b), "null".                                              *)
(***************************************************************************)
JNull == [t |-> "null"]

IsStrTok(tok) == Len(tok) >= 2 /\ CharAt(tok, 1) = "\"" /\ CharAt(tok, Len(tok)) = "\""

IsNatText(s) ==
    /\ Len(s) >= 1
    /\ \A i \in 1..Len(s) : IsDigit(CharAt(s, i))
    /\ (Len(s) > 1 => CharAt(s, 1) # "0")

IsIntTok(tok) ==
    IF StartsWithAt(tok, 1, "-") THEN IsNatText(SubSeq(tok, 2, Len(tok))) ELSE IsNatText(tok)

IntTokValue(tok) ==
    IF StartsWithAt(tok, 1, "-") THEN 0 - DigitsToInt(SubSeq(tok, 2, Len(tok)))
    ELSE DigitsToInt(tok)

DotIndex(tok) == IndexIn(".", tok)

\* digits "." digits, the dot at position d
IsFloatAt(tok, d) ==
    /\ d > 1 /\ d < Len(tok)
    /\ IsIntTok(SubSeq(tok, 1, d - 1))
    /\ \A i \in (d + 1)..Len(tok) : IsDigit(CharAt(tok, i))

IsFloatTok(tok) == IsFloatAt(tok, DotIndex(tok))

FloatAt(tok, d) ==
    [t |-> "float", n |-> IntTokValue(SubSeq(tok, 1, d - 1)),
     whole |-> \A i \in (d + 1)..Len(tok) : CharAt(tok, i) = "0", s |-> tok]

FloatTokValue(tok) == FloatAt(tok, DotIndex(tok))

ScalarTok(tok) ==
    \/ IsStrTok(tok) \/ IsIntTok(tok) \/ IsFloatTok(tok)
    \/ tok \in {"null", "true", "false", "NaN", "Infinity", "-Infinity"}

ScalarValue(tok) ==
    IF IsStrTok(tok) THEN [t |-> "str", s |-> SubSeq(tok, 2, Len(tok) - 1)]
    ELSE IF IsIntTok(tok) THEN [t |-> "int", n |-> IntTokValue(tok)]
    ELSE IF IsFloatTok(tok) THEN FloatTokValue(tok)
    ELSE IF tok = "null" THEN JNull
    ELSE IF tok \in {"true", "false"} THEN [t |-> "bool", b |-> tok = "true"]
    ELSE IF tok = "NaN" THEN [t |-> "nan"]
    ELSE [t |-> "inf"]

JFail == [ok |-> FALSE, val |-> JNull, next |-> 0]

RECURSIVE ParseValue(_, _)
RECURSIVE ParseMembers(_, _, _)
RECURSIVE ParseElements(_, _, _)

\* the value that starts at token i: [ok, val, next token]
ParseValue(toks, i) ==
    IF i > Len(toks) THEN JFail
    ELSE IF toks[i] = "{"
    THEN IF i + 1 <= Len(toks) /\ toks[i + 1] = "}"
         THEN [ok |-> TRUE, val |-> [t |-> "obj", m |-> <<>>], next |-> i + 2]
         ELSE ParseMembers(toks, i + 1, <<>>)
    ELSE IF toks[i] = "["
    THEN IF i + 1 <= Len(toks) /\ toks[i + 1] = "]"
         THEN [ok |-> TRUE, val |-> [t |-> "arr", a |-> <<>>], next |-> i + 2]
         ELSE ParseElements(toks, i + 1, <<>>)
    ELSE IF ScalarTok(toks[i])
    THEN [ok |-> TRUE, val |-> ScalarValue(toks[i]), next |-> i + 1]
    ELSE JFail

\* "key" : value , ... }
ParseMembers(toks, i, acc) ==
    IF i + 1 > Len(toks) \/ ~IsStrTok(toks[i]) \/ toks[i + 1] # ":" THEN JFail
    ELSE With(ParseValue(toks, i + 2), LAMBDA v :
         With(Append(acc, [k |-> SubSeq(toks[i], 2, Len(toks[i]) - 1), v |-> v.val]),
              LAMBDA m :
                  IF ~v.ok \/ v.next > Len(toks) THEN JFail
                  ELSE IF toks[v.next] = "}"
                  THEN [ok |-> TRUE, val |-> [t |-> "obj", m |-> m], next |-> v.next + 1]
                  ELSE IF toks[v.next] = "," THEN ParseMembers(toks, v.next + 1, m)
                  ELSE JFail))

\* value , ... ]
ParseElements(toks, i, acc) ==
    With(ParseValue(toks, i), LAMBDA v :
    With(Append(acc, v.val), LAMBDA a :
        IF ~v.ok \/ v.next > Len(toks) THEN JFail
        ELSE IF toks[v.next] = "]"
        THEN [ok |-> TRUE, val |-> [t |-> "arr", a |-> a], next |-> v.next + 1]
        ELSE IF toks[v.next] = "," THEN ParseElements(toks, v.next + 1, a)
        ELSE JFail))

\* json.loads: ok = FALSE models JSONDecodeError (also on data after the value)
JsonLoads(toks) ==
    With(ParseValue(toks, 1), LAMBDA v :
        IF v.ok /\ v.next = Len(toks) + 1 THEN [ok |-> TRUE, val |-> v.val]
        ELSE [ok |-> FALSE, val |-> JNull])

IsDict(v) == v.t = "obj"

HasKey(obj, key) == \E k \in 1..Len(obj.m) : obj.m[k].k = key

\* dict.get(key, default): of a repeated key the decoder keeps the last value
DictGet(obj, key, default) ==
    With({k \in 1..Len(obj.m) : obj.m[k].k = key}, LAMBDA ks :
         IF ks = {} THEN default ELSE obj.m[CHOOSE k \in ks : \A j \in ks : j <= k].v)

\* bool(v) is False
Falsy(v) ==
    \/ v.t = "null"
    \/ v.t = "bool" /\ ~v.b
    \/ v.t = "int" /\ v.n = 0
    \/ v.t = "float" /\ v.n = 0 /\ v.whole
    \/ v.t = "str" /\ v.s = ""
    \/ v.t = "arr" /\ v.a = <<>>
    \/ v.t = "obj" /\ v.m = <<>>

\* str(v); the repr of a list or dict is not spelled out
PyStr(v) ==
    CASE v.t = "str"   -> v.s
      [] v.t = "int"   -> IntToStr(v.n)
      [] v.t = "float" -> v.s
      [] v.t = "bool"  -> IF v.b THEN "True" ELSE "False"
      [] v.t = "null"  -> "None"
      [] v.t = "nan"   -> "nan"
      [] v.t = "inf"   -> "inf"
      [] v.t = "arr"   -> "[...]"
      [] OTHER         -> "{...}"

\* a comparison that also takes the string of the numeral for the number
EqualsIntOrText(v, n) ==
    \/ v.t = "int" /\ v.n = n
    \/ v.t = "float" /\ v.whole /\ v.n = n
    \/ v.t = "bool" /\ n = (IF v.b THEN 1 ELSE 0)
    \/ v.t = "str" /\ v.s = IntToStr(n)

\* v == n for a Python int n
EqualsInt(v, n) ==
    \/ v.t = "int" /\ v.n = n
    \/ v.t = "float" /\ v.whole /\ v.n = n
    \/ v.t = "bool" /\ n = (IF v.b THEN 1 ELSE 0)

(***************************************************************************)
(* AzureEPDMatcher: response parsing (matching/azure_matcher.py)           *)
(***************************************************************************)
\* the text without a leading sign
Unsigned(u) ==
    IF StartsWithAt(u, 1, "-") \/ StartsWithAt(u, 1, "+") THEN SubSeq(u, 2, Len(u)) ELSE u

AllDigits(d) == Len(d) >= 1 /\ \A i \in 1..Len(d) : IsDigit(CharAt(d, i))

\* int(s) for a str: surrounding whitespace and a sign are accepted
IsPyIntText(s) == AllDigits(Unsigned(strip(s)))

Signed(u) ==
    IF StartsWithAt(u, 1, "-") THEN 0 - DigitsToInt(Unsigned(u)) ELSE DigitsToInt(Unsigned(u))

PyIntOfText(s) == Signed(strip(s))

\* the value as decoded, with no bounds applied
Unclamped(n) == n

Clamp(n) == Max(0, Min(100, n))

\* int(inf) raises OverflowError, which the except clause does not name
_normalize_confidence(value) ==
    CASE value.t = "null"  -> [raised |-> "", confidence |-> NoneInt]
      [] value.t = "int"   -> [raised |-> "", confidence |-> Clamp(value.n)]
      [] value.t = "float" -> [raised |-> "", confidence |-> Clamp(value.n)]
      [] value.t = "bool"  -> [raised |-> "", confidence |-> IF value.b THEN 1 ELSE 0]
      [] value.t = "str"   -> [raised |-> "",
                               confidence |-> IF IsPyIntText(value.s)
                                              THEN Clamp(PyIntOfText(value.s))
                                              ELSE NoneInt]
      [] value.t = "inf"   -> [raised |-> "OverflowError", confidence |-> NoneInt]
      [] OTHER             -> [raised |-> "", confidence |-> NoneInt]

\* index of the first tok at or after from, of the last tok; 0 when there is none
FirstIndex(toks, tok, from) ==
    With({i \in from..Len(toks) : toks[i] = tok}, LAMBDA is :
         IF is = {} THEN 0 ELSE CHOOSE i \in is : \A j \in is : i <= j)

LastIndex(toks, tok) ==
    With({i \in 1..Len(toks) : toks[i] = tok}, LAMBDA is :
         IF is = {} THEN 0 ELSE CHOOSE i \in is : \A j \in is : j <= i)

\* The Markdown fence of three backquotes, which a TLA+ string cannot hold
FENCE == "'''"

\* re.search(r"FENCE(?:json)?\s*([\s\S]*?)\s*FENCE", response): group(1), or the
\* response itself when there is no closed fence
FenceBody(response, open, body) ==
    With(FirstIndex(response, FENCE, body), LAMBDA close :
         IF close = 0 THEN response ELSE SubSeq(response, body, close - 1))

FenceStrip(response) ==
    With(FirstIndex(response, FENCE, 1), LAMBDA open :
         IF open = 0 THEN response
         ELSE FenceBody(response, open,
                        IF open < Len(response) /\ response[open + 1] = "json"
                        THEN open + 2 ELSE open + 1))

\* re.search(r"\{[\s\S]*\"results\"[\s\S]*\}", response): from the first "{"
\* that has the key after it and a "}" after the key, to the last "}"
RegexFrom(response, last) ==
    With(FirstHit(last, LAMBDA i : /\ response[i] = "{"
                                   /\ \E k \in (i + 1)..(last - 1) :
                                          response[k] = "\"results\""),
         LAMBDA first :
             IF first = 0 THEN [found |-> FALSE, text |-> <<>>]
             ELSE [found |-> TRUE, text |-> SubSeq(response, first, last)])

RegexResults(response) == RegexFrom(response, LastIndex(response, "}"))

\* identifier = item.get("id") or item.get("uuid")
Identifier(item) ==
    With(DictGet(item, "id", JNull), LAMBDA id :
         IF Falsy(id) THEN DictGet(item, "uuid", JNull) ELSE id)

\* the body of `for item in schicht_result.get("matches", [])` for one item
ItemKept(item) == IsDict(item) /\ Identifier(item).t # "null"

ItemMatch(item) ==
    [uuid |-> strip(PyStr(Identifier(item))),
     begruendung |-> PyStr(DictGet(item, "begruendung", [t |-> "str", s |-> ""])),
     confidence |-> _normalize_confidence(DictGet(item, "confidence", JNull)).confidence]

ItemRaises(item) ==
    ItemKept(item) /\ _normalize_confidence(DictGet(item, "confidence", JNull)).raised # ""

\* iterating a str or a dict yields str elements; other non-lists cannot be iterated
Iterable(v) == v.t \in {"arr", "str", "obj"}

Elements(v) ==
    CASE v.t = "arr" -> v.a
      [] v.t = "str" -> [k \in 1..Len(v.s) |-> [t |-> "str", s |-> CharAt(v.s, k)]]
      [] v.t = "obj" -> [k \in 1..Len(v.m) |-> [t |-> "str", s |-> v.m[k].k]]
      [] OTHER       -> <<>>

\* the loop over the items of a group
ItemsMatches(items) ==
    IF \E k \in 1..Len(items) : ItemRaises(items[k])
    THEN [raised |-> "OverflowError", matches |-> <<>>]
    ELSE [raised |-> "",
          matches |-> List(Pick([k \in 1..Len(items) |-> ItemMatch(items[k])],
                                {k \in 1..Len(items) : ItemKept(items[k])}))]

\* the matches of one group, or the exception its decoding raises
GroupMatches(schicht_result) ==
    With(DictGet(schicht_result, "matches", [t |-> "arr", a |-> <<>>]), LAMBDA matches :
         IF ~Iterable(matches) THEN [raised |-> "TypeError", matches |-> <<>>]
         ELSE ItemsMatches(List(Elements(matches))))

\* a parser that takes the i-th group of the response for material i
GroupAtPosition(rs, i) ==
    IF i > Len(rs) THEN [raised |-> "", matches |-> <<>>]
    ELSE IF ~IsDict(rs[i]) THEN [raised |-> "AttributeError", matches |-> <<>>]
    ELSE GroupMatches(rs[i])

\* the first r of rs with r.get("schicht") == i; r.get on a non-dict raises
\* AttributeError
FirstGroup(rs, i) ==
    With(FirstHit(Len(rs), LAMBDA k : \/ ~IsDict(rs[k])
                                      \/ EqualsInt(DictGet(rs[k], "schicht", JNull), i)),
         LAMBDA k :
             IF k = 0 THEN [raised |-> "", matches |-> <<>>]
             ELSE IF ~IsDict(rs[k]) THEN [raised |-> "AttributeError", matches |-> <<>>]
             ELSE GroupMatches(rs[k]))

\* one pass of `for i in range(expected_count)`
SchichtMatches(results, i) ==
    IF ~Iterable(results) THEN [raised |-> "TypeError", matches |-> <<>>]
    ELSE FirstGroup(List(Elements(results)), i)

EmptyMatches(expected_count) == [i \in 1..expected_count |-> <<>>]

\* the exception of the first pass that raises, or the lists of all passes
Collected(per) ==
    With(FirstHit(Len(per), LAMBDA i : per[i].raised # ""), LAMBDA bad :
         IF bad # 0 THEN [raised |-> per[bad].raised, all_matches |-> <<>>]
         ELSE [raised |-> "", all_matches |-> List([i \in 1..Len(per) |-> per[i].matches])])

\* the loop over the groups
ParseGroups(results, expected_count) ==
    Collected(List([i \in 1..expected_count |-> SchichtMatches(results, i)]))

\* the part after the decoding
FromData(data, expected_count) ==
    IF ~IsDict(data) \/ ~HasKey(data, "results")
    THEN [raised |-> "", all_matches |-> EmptyMatches(expected_count)]
    ELSE ParseGroups(DictGet(data, "results", [t |-> "arr", a |-> <<>>]), expected_count)

\* the except clause: the regex search and the second, unguarded decoding
Retry(text, json_match, expected_count) ==
    IF ~json_match.found
    THEN [raised |-> "", all_matches |-> EmptyMatches(expected_count)]
    ELSE With(JsonLoads(json_match.text), LAMBDA retry :
              IF ~retry.ok THEN [raised |-> "JSONDecodeError", all_matches |-> <<>>]
              ELSE FromData(retry.val, expected_count))

_parse_batch_response(response, expected_count) ==
    IF response = <<>> THEN [raised |-> "", all_matches |-> EmptyMatches(expected_count)]
    ELSE With(FenceStrip(response), LAMBDA text :
         With(JsonLoads(text), LAMBDA direct :
              IF direct.ok THEN FromData(direct.val, expected_count)
              ELSE Retry(text, RegexResults(text), expected_count)))

(***************************************************************************)
(* The state: the settings read from the environment, the fields of the    *)
(* AzureEPDMatcher object, and the call in progress with what it returned. *)
(***************************************************************************)
VARIABLES
    USE_GLOSSAR,                 \* GlossarConfig.USE_GLOSSAR
    USE_GLOSSAR_FILTER,          \* FilterConfig.USE_GLOSSAR_FILTER
    USE_CONFIDENCE_VALIDATION,   \* ValidationConfig.USE_CONFIDENCE_VALIDATION
    MIN_CONFIDENCE,              \* ValidationConfig.MIN_CONFIDENCE
    _epd_cache,                  \* the catalog loaded by the constructor
    _epd_filter,                 \* TRUE iff the constructor made an EPDFilter
    _last_results,               \* enriched matches of the first material
    _batch_detailed_results,     \* enriched matches of every material
    MAX_EPD_IN_PROMPT,           \* MatchingConfig.MAX_EPD_IN_PROMPT
    USE_DETAIL_MATCHING,         \* MatchingConfig.USE_DETAIL_MATCHING
    list_calls,                  \* number of list_epds requests issued so far
    epds_list,                   \* the truncated list of _load_and_cache_epds
    futures,                     \* get_epd_details: id -> "running", "detail", "failed"
    collected,                   \* ids whose future the as_completed loop has taken
    details,                     \* get_epd_details: the details appended so far
    pc,                          \* "new", "fetching", "failed", "ready", "done", "raised"
    call,                        \* the operation called and its arguments
    ret                          \* what it returned, or the exception raised

vars == <<USE_GLOSSAR, USE_GLOSSAR_FILTER, USE_CONFIDENCE_VALIDATION, MIN_CONFIDENCE,
          _epd_cache, _epd_filter, _last_results, _batch_detailed_results,
          MAX_EPD_IN_PROMPT, USE_DETAIL_MATCHING, list_calls, epds_list, futures,
          collected, details, pc, call, ret>>

settings == <<USE_GLOSSAR, USE_GLOSSAR_FILTER, USE_CONFIDENCE_VALIDATION, MIN_CONFIDENCE,
              MAX_EPD_IN_PROMPT, USE_DETAIL_MATCHING>>

\* the state of the cache priming
priming == <<list_calls, epds_list, futures, collected, details>>

\* MatchingConfig.MAX_RESULTS and FilterConfig.FILTER_MAX_PER_MATERIAL, at their defaults
MAX_RESULTS == 10

FILTER_MAX_PER_MATERIAL == 100

\* json.dumps({"matches": []})
EmptyPayload == <<"{", "\"matches\"", ":", "[", "]", "}">>

\* a request that answers a failure with a document that names a match
_call_azure_api_canned(llm) ==
    IF llm.kind = "content" THEN llm.text
    ELSE <<"{", "\"results\"", ":", "[", "{", "\"schicht\"", ":", "1", ",", "\"matches\"", ":",
           "[", "{", "\"id\"", ":", "1", ",", "\"confidence\"", ":", "90", "}", "]", "}", "]", "}">>

\* The request's outcome llm is [kind, text]: kind "error" when the client or
\* the usage bookkeeping raises, "nocontent" when the message content is None
\* or "", "content" otherwise.  A text carries no white space of its own, so
\* content.strip() of a blank content is the empty text.
_call_azure_api(llm) ==
    IF llm.kind = "content" THEN llm.text ELSE EmptyPayload

\* name_map.get(m["uuid"], ""), name_map keyed by str(e.get("id"))
_enrich_results(matches, epds) ==
    List([k \in 1..Len(matches) |->
            [uuid |-> matches[k].uuid,
             name |-> EpdById(epds, matches[k].uuid).name,
             confidence |-> matches[k].confidence,
             begruendung |-> matches[k].begruendung]])

\* the last position among keyed that holds uuid u
LastOf(matches, keyed, u) ==
    CHOOSE k \in keyed : /\ matches[k].uuid = u
                         /\ \A j \in keyed : matches[j].uuid = u => j <= k

\* {m["uuid"]: m["confidence"] for m in matches if m.get("confidence") is not None}:
\* a later entry of the same uuid overwrites an earlier one
ConfidenceMap(matches) ==
    With({k \in 1..Len(matches) : matches[k].confidence # NoneInt}, LAMBDA keyed :
         [u \in {matches[k].uuid : k \in keyed} |->
             matches[LastOf(matches, keyed, u)].confidence])

\* [m["uuid"] for m in matches[:max_results]]
IdsOf(matches, max_results) ==
    List([k \in 1..Min(Len(matches), max_results) |-> matches[k].uuid])

EmptyResult == [ids |-> <<>>, confidence |-> <<>>]

Raise(exception, requests) ==
    [raised |-> exception, results |-> <<>>, requests |-> requests,
     last |-> _last_results, detailed |-> _batch_detailed_results]

\* "Ergebnisse formatieren": the loop over all_matches and the two fields it sets
FormatResults(all_matches, filtered_epds, max_results) ==
    With(List([i \in 1..Len(all_matches) |-> _enrich_results(all_matches[i], filtered_epds)]),
         LAMBDA enriched_all :
             [raised |-> "",
              results |-> List([i \in 1..Len(all_matches) |->
                                   [ids |-> IdsOf(all_matches[i], max_results),
                                    confidence |-> ConfidenceMap(all_matches[i])]]),
              requests |-> 1,
              last |-> IF all_matches = <<>> THEN _last_results ELSE enriched_all[1],
              detailed |-> enriched_all])

\* Stage 5: the validation, when both settings ask for it
Stage5(all_matches, materials, filtered_epds, max_results) ==
    IF USE_GLOSSAR /\ USE_CONFIDENCE_VALIDATION
    THEN With(validate_batch_results(all_matches, materials, filtered_epds), LAMBDA validated :
              IF validated.raised # "" THEN Raise(validated.raised, 1)
              ELSE FormatResults(validated.results, filtered_epds, max_results))
    ELSE FormatResults(all_matches, filtered_epds, max_results)

\* Stage 4: the request and the parsing of its response
Stage4(materials, filtered_epds, max_results, llm) ==
    With(_parse_batch_response(_call_azure_api(llm), Len(materials)), LAMBDA parsed :
         IF parsed.raised # "" THEN Raise(parsed.raised, 1)
         ELSE Stage5(parsed.all_matches, materials, filtered_epds, max_results))

\* Stage 3: the glossary filter, when the constructor made one
Stage3(materials, max_results, llm) ==
    IF _epd_filter
    THEN With(filter_for_materials(_epd_cache, materials, FILTER_MAX_PER_MATERIAL),
              LAMBDA filter_result :
                  IF filter_result.raised # "" THEN Raise(filter_result.raised, 0)
                  ELSE Stage4(materials, filter_result.combined_epds, max_results, llm))
    ELSE Stage4(materials, _epd_cache, max_results, llm)

\* The batch match of the matcher object in the current state.  The record
\* returned holds the exception raised ("" for none), the list returned, the
\* number of LLM requests issued and the new values of the two result fields.
match_materials_batch(materials, max_results, llm) ==
    IF _epd_cache = <<>>
    THEN [raised |-> "", results |-> List([i \in 1..Len(materials) |-> EmptyResult]),
          requests |-> 0, last |-> _last_results, detailed |-> _batch_detailed_results]
    ELSE Stage3(materials, IF max_results = NoneInt THEN MAX_RESULTS ELSE max_results, llm)

\* [x for x in ids if not (str(x) in seen or seen.add(str(x)))]
remove_duplicates(ids) ==
    List(Pick(ids, {k \in 1..Len(ids) : \A j \in 1..(k - 1) : ids[j] # ids[k]}))

\* the literal max_results=10 of the call in process_groups_batch
BatchMaxResults == 10

\* materials.append({"material_name": gruppe.get("MATERIAL", ""), "context": {"NAME": ...}})
MaterialsOf(gruppen) ==
    List([k \in 1..Len(gruppen) |->
            [material_name |-> gruppen[k].MATERIAL, NAME |-> gruppen[k].NAME]])

\* the loop "Ergebnisse zuordnen": every group gets the duplicate-free id list
\* and the confidence map of its result
Zugeordnet(gruppen, all_results) ==
    List([k \in 1..Len(gruppen) |->
            [MATERIAL |-> gruppen[k].MATERIAL,
             NAME |-> gruppen[k].NAME,
             id |-> IF k <= Len(all_results)
                    THEN remove_duplicates(all_results[k].ids) ELSE <<>>,
             id_confidence |-> IF k <= Len(all_results)
                               THEN all_results[k].confidence ELSE <<>>]])

\* The groups as written back, for an input that has the key "Gruppen"
process_groups_batch(gruppen, llm) ==
    With(match_materials_batch(MaterialsOf(gruppen), BatchMaxResults, llm), LAMBDA m :
         [raised |-> m.raised,
          Gruppen |-> IF m.raised # "" THEN <<>> ELSE Zugeordnet(gruppen, m.results),
          requests |-> m.requests, last |-> m.last, detailed |-> m.detailed])

(***************************************************************************)
(* Single-material matching (matching/azure_matcher.py: match_material)    *)
(***************************************************************************)
\* re.search(r"\{[\s\S]*\"matches\"[\s\S]*\}", response)
RegexMatchesFrom(response, last) ==
    With(FirstHit(last, LAMBDA i : /\ response[i] = "{"
                                   /\ \E k \in (i + 1)..(last - 1) :
                                          response[k] = "\"matches\""),
         LAMBDA first :
             IF first = 0 THEN [found |-> FALSE, text |-> <<>>]
             ELSE [found |-> TRUE, text |-> SubSeq(response, first, last)])

RegexMatches(response) == RegexMatchesFrom(response, LastIndex(response, "}"))

\* the part of _parse_response after the decoding
MatchesFromData(data) ==
    IF ~IsDict(data) THEN [raised |-> "", matches |-> <<>>] ELSE GroupMatches(data)

\* the except clause of _parse_response
RetryMatches(json_match) ==
    IF ~json_match.found THEN [raised |-> "", matches |-> <<>>]
    ELSE With(JsonLoads(json_match.text), LAMBDA retry :
              IF ~retry.ok THEN [raised |-> "JSONDecodeError", matches |-> <<>>]
              ELSE MatchesFromData(retry.val))

_parse_response(response) ==
    IF response = <<>> THEN [raised |-> "", matches |-> <<>>]
    ELSE With(FenceStrip(response), LAMBDA text :
         With(JsonLoads(text), LAMBDA direct :
              IF direct.ok THEN MatchesFromData(direct.val)
              ELSE RetryMatches(RegexMatches(text))))

\* next((e for e in filtered_epds if str(e.get("id")) == match["uuid"]), {})
FirstEpdById(epds, epd_id) ==
    With(FirstHit(Len(epds), LAMBDA k : IntToStr(epds[k].id) = epd_id), LAMBDA k :
         IF k = 0 THEN NoEpd ELSE epds[k])

\* EPDFilter.filter_for_single_material: primaer + sekundaer
filter_for_single_material(all_epds, material_name, schicht_name) ==
    With(filter_epds_for_material(all_epds, parse_material_input(material_name, schicht_name),
                                  FILTER_MAX_PER_MATERIAL),
         LAMBDA tiers : [raised |-> tiers.raised,
                         filtered_epds |-> tiers.primaer \o tiers.sekundaer])

\* the result record of match_material: the exception raised ("" for none),
\* the ids returned, the number of LLM requests issued and the values the
\* call leaves in the fields _last_results and _epd_cache
SingleRaise(exception, requests) ==
    [raised |-> exception, ids |-> <<>>, requests |-> requests,
     last |-> _last_results, cache |-> _epd_cache]

SingleResult(matches, filtered_epds, max_results) ==
    [raised |-> "", ids |-> IdsOf(matches, max_results), requests |-> 1,
     last |-> _enrich_results(matches, filtered_epds), cache |-> _epd_cache]

\* the validation loop writes the corrected confidence into the match before
\* it compares the two, so the reason is never appended
SingleValidated(matches, parsed, filtered_epds) ==
    List([k \in 1..Len(matches) |->
            validate_match(FirstEpdById(filtered_epds, matches[k].uuid), parsed,
                           matches[k].confidence)])

\* sorted(...) and the MIN_CONFIDENCE comparison raise TypeError on a
\* confidence of None
SingleStage5(matches, validated, filtered_epds, max_results) ==
    IF \E k \in 1..Len(validated) :
           validated[k].raised # "" \/ validated[k].confidence = NoneInt
    THEN SingleRaise("TypeError", 1)
    ELSE With(SortByConfidenceDesc(
                  List([k \in 1..Len(matches) |->
                          [uuid |-> matches[k].uuid,
                           begruendung |-> matches[k].begruendung,
                           confidence |-> validated[k].confidence]])),
              LAMBDA sorted :
                  SingleResult(List(Pick(sorted, {k \in 1..Len(sorted) :
                                             sorted[k].confidence >= MIN_CONFIDENCE})),
                               filtered_epds, max_results))

SingleStage4(material, filtered_epds, max_results, llm) ==
    With(_parse_response(_call_azure_api(llm)), LAMBDA parsed :
         IF parsed.raised # "" THEN SingleRaise(parsed.raised, 1)
         ELSE IF USE_GLOSSAR /\ USE_CONFIDENCE_VALIDATION
         THEN SingleStage5(parsed.matches,
                           SingleValidated(parsed.matches,
                                           parse_material_input(material.material_name,
                                                                material.NAME),
                                           filtered_epds),
                           filtered_epds, max_results)
         ELSE SingleResult(parsed.matches, filtered_epds, max_results))

\* a single match that keeps the filtered list as the cache
match_material_caching(material, max_results, llm) ==
    [raised |-> "", ids |-> <<>>, requests |-> 0, last |-> _last_results,
     cache |-> filter_for_single_material(_epd_cache, material.material_name,
                                          material.NAME).filtered_epds]

match_material(material, max_results, llm) ==
    IF _epd_cache = <<>>
    THEN [raised |-> "", ids |-> <<>>, requests |-> 0,
          last |-> _last_results, cache |-> _epd_cache]
    ELSE IF _epd_filter
    THEN With(filter_for_single_material(_epd_cache, material.material_name, material.NAME),
              LAMBDA f :
                  IF f.raised # "" THEN SingleRaise(f.raised, 0)
                  ELSE SingleStage4(material, f.filtered_epds,
                                    IF max_results = NoneInt THEN MAX_RESULTS
                                    ELSE max_results, llm))
    ELSE SingleStage4(material, _epd_cache,
                      IF max_results = NoneInt THEN MAX_RESULTS ELSE max_results, llm)

(***************************************************************************)
(* The catalog client and the cache priming (api/epd_client.py,            *)
(* matching/azure_matcher.py: _load_and_cache_epds)                        *)
(***************************************************************************)
\* MatchingConfig.MAX_EPD_IN_PROMPT as shipped
DefaultMaxEpdInPrompt == 200

\* row.get("name") or ""
OrEmpty(value) == IF value = NONE THEN "" ELSE value

_normalize_epd_list(row) ==
    [id |-> row.id, name |-> OrEmpty(row.name),
     klassifizierung |-> OrEmpty(row.klassifizierung)]

\* the detail form carries the description fields of the data set
_normalize_epd_detail(row) ==
    [id |-> row.id, name |-> OrEmpty(row.name),
     klassifizierung |-> OrEmpty(row.klassifizierung),
     technischeBeschreibung |-> OrEmpty(row.technischeBeschreibung)]

\* the rows list_epds keeps: rows without id (None or 0) and rows whose id
\* was seen before are skipped
Usable(rows) ==
    Pick(rows, {j \in 1..Len(rows) : /\ rows[j].id \notin {NoneInt, 0}
                                     /\ \A i \in 1..(j - 1) : rows[i].id # rows[j].id})

\* list_epds without labels
list_epds(rows) ==
    With(List(Usable(rows)), LAMBDA kept :
         List([k \in 1..Len(kept) |-> _normalize_epd_list(kept[k])]))

\* _load_and_cache_epds up to the start of the detail requests: the cache it
\* sets (done) or the ids whose details it submits to the worker pool
LoadFrom(listed) ==
    IF listed = <<>>
    THEN [done |-> TRUE, cache |-> <<>>, epds_list |-> <<>>, submitted |-> {}]
    ELSE With(Take(listed, MAX_EPD_IN_PROMPT), LAMBDA truncated :
              IF USE_DETAIL_MATCHING
              THEN [done |-> FALSE, cache |-> <<>>, epds_list |-> truncated,
                    submitted |-> IdSet(truncated)]
              ELSE [done |-> TRUE, cache |-> truncated, epds_list |-> truncated,
                    submitted |-> {}])

\* the end of _load_and_cache_epds: the details if there are any, else the list
CacheFrom(epds_details, listed) ==
    IF epds_details # <<>> THEN epds_details ELSE listed

(***************************************************************************)
(* Inputs.  The catalog has one entry for each branch of the validator's   *)
(* cascade; the groups are an asphalt surface course, an asphalt binder    *)
(* course and an unbound base.  A response is rendered from the matches    *)
(* chosen for each group, as the token text of the JSON document the       *)
(* prompt asks for.                                                        *)
(***************************************************************************)
Catalog ==
    << [id |-> 1, name |-> "Asphaltdeckschicht AC 11 D S", klassifizierung |-> "Asphalt"],
       [id |-> 2, name |-> "Asphaltbinder AC 16 B S",      klassifizierung |-> "Asphalt"],
       [id |-> 3, name |-> "Betonpflaster grau",           klassifizierung |-> "Beton"],
       [id |-> 4, name |-> "Bitumenbahn V60",              klassifizierung |-> "Abdichtung"],
       [id |-> 5, name |-> "Schotter 0/32",                klassifizierung |-> "Gestein"] >>

Deck == [MATERIAL |-> "AC 11 D S", NAME |-> "Deckschicht"]

Binder == [MATERIAL |-> "AC 16 B S", NAME |-> "Binderschicht"]

Frostschutz == [MATERIAL |-> "Schotter 0/32", NAME |-> "Frostschutzschicht"]

\* the longest match list drawn for a group, and the largest max_results drawn
MaxMatches == 2

MaxResultsBound == 2

SeqsUpTo(S, n) == UNION {[1..k -> S] : k \in 0..n}

\* the texts of a list's elements, separated by commas
RECURSIVE Join(_)
Join(seqs) ==
    IF seqs = <<>> THEN <<>>
    ELSE IF Len(seqs) = 1 THEN seqs[1]
    ELSE seqs[1] \o <<",">> \o Join(Tail(seqs))

\* One match as the model writes it: the id and the confidence as JSON
\* tokens, "" for a confidence key that is left out.
Item(id, confidence) == [id |-> id, confidence |-> confidence]

RenderItem(item) ==
    <<"{", "\"id\"", ":", item.id, ",", "\"begruendung\"", ":", "\"passt\"">>
    \o (IF item.confidence = "" THEN <<>> ELSE <<",", "\"confidence\"", ":", item.confidence>>)
    \o <<"}">>

RenderGroup(schicht, items) ==
    <<"{", "\"schicht\"", ":", NatToStr(schicht), ",", "\"matches\"", ":", "[">>
    \o Join([k \in 1..Len(items) |-> RenderItem(items[k])]) \o <<"]", "}">>

\* groups: a sequence of [schicht, items], in the order the response lists them
RenderResponse(groups) ==
    <<"{", "\"results\"", ":", "[">>
    \o Join([k \in 1..Len(groups) |-> RenderGroup(groups[k].schicht, groups[k].items)])
    \o <<"]", "}">>

Group(schicht, items) == [schicht |-> schicht, items |-> items]

ItemPool ==
    { Item("1", "90"), Item("1", "60"), Item("4", "95"), Item("77", "30"),
      Item("\"2\"", ""), Item("5", "\"hoch\"") }

\* eleven matches, the first two of one id: more than the pipeline's ten
LongItems(first) ==
    [k \in 1..11 |-> Item(IF k <= 2 THEN first ELSE NatToStr(k + 8), NatToStr(96 - k))]

MatchLists == SeqsUpTo(ItemPool, MaxMatches) \cup {LongItems("1"), LongItems("30")}

Content(text) == [kind |-> "content", text |-> text]

\* what the request can bring back for a batch of one group
LlmOutcomes1 ==
    {[kind |-> "error", text |-> <<>>], [kind |-> "nocontent", text |-> <<>>]}
    \cup {Content(RenderResponse(<<Group(1, items)>>)) : items \in MatchLists}
    \cup { Content(<<>>),
           Content(<<FENCE, "json">> \o RenderResponse(<<Group(1, <<Item("1", "90")>>)>>)
                   \o <<FENCE>>),
           Content(<<"Ergebnis", ":">> \o RenderResponse(<<Group(1, <<Item("1", "90")>>)>>)),
           Content(<<"Ergebnis", "{", "\"results\"", ":", "[", "}">>),
           Content(<<"{", "\"results\"", ":", "null", "}">>),
           Content(<<"{", "\"matches\"", ":", "[", "]", "}">>) }

\* a response whose confidences lie outside 0..100
OutOfRange ==
    <<Group(1, <<Item("1", "150"), Item("4", "-5")>>), Group(2, <<Item("2", "101")>>)>>

\* and for a batch of two: both groups, in either order, or one left out,
\* or with confidences out of range
LlmOutcomes2 ==
    {[kind |-> "error", text |-> <<>>]}
    \cup {Content(RenderResponse(groups)) :
            groups \in { <<Group(1, <<Item("1", "90")>>), Group(2, <<Item("2", "80")>>)>>,
                         <<Group(2, <<Item("2", "80")>>), Group(1, <<Item("1", "90")>>)>>,
                         <<Group(2, <<Item("2", "80"), Item("1", "60")>>)>>,
                         <<Group(1, <<Item("1", "60"), Item("1", "90"), Item("2", "80")>>),
                           Group(2, <<Item("2", "")>>)>>,
                         OutOfRange }}

GruppenInputs == {<<Deck>>, <<Frostschutz>>, <<Deck, Binder>>}

LlmOutcomes(gruppen) == IF Len(gruppen) = 1 THEN LlmOutcomes1 ELSE LlmOutcomes2

\* an input document without the key "Gruppen"
NoGruppen == [Gruppen |-> NONE]

Configs ==
    { <<TRUE, TRUE, TRUE>>, <<TRUE, FALSE, TRUE>>, <<TRUE, TRUE, FALSE>>,
      <<FALSE, TRUE, TRUE>> }

\* ValidationConfig.MIN_CONFIDENCE as shipped, and the values EPD_MIN_CONFIDENCE sets
DefaultMinConfidence == 25

MinConfidences == {0, DefaultMinConfidence, 50}

(***************************************************************************)
(* The matcher after construction: the settings as read, the filter made   *)
(* iff both glossary settings are on, the catalog loaded or not.           *)
(***************************************************************************)
Constructed(configs, caches, min_confidences) ==
    /\ \E cfg \in configs :
          /\ USE_GLOSSAR = cfg[1]
          /\ USE_GLOSSAR_FILTER = cfg[2]
          /\ USE_CONFIDENCE_VALIDATION = cfg[3]
          /\ _epd_filter = (cfg[1] /\ cfg[2])
    /\ MIN_CONFIDENCE \in min_confidences
    /\ _epd_cache \in caches
    /\ MAX_EPD_IN_PROMPT = DefaultMaxEpdInPrompt
    /\ USE_DETAIL_MATCHING = FALSE
    /\ list_calls = 1
    /\ epds_list = _epd_cache
    /\ futures = <<>>
    /\ collected = {}
    /\ details = <<>>
    /\ _last_results = <<>>
    /\ _batch_detailed_results = <<>>
    /\ pc = "ready"
    /\ call = [op |-> "none"]
    /\ ret = [raised |-> ""]

(***************************************************************************)
(* The batch pipeline: one call of the matcher or of process_groups_batch. *)
(***************************************************************************)
Init == Constructed(Configs, {<<>>, Catalog}, {DefaultMinConfidence})

MatchMaterialsBatch ==
    /\ pc = "ready"
    /\ \E gruppen \in GruppenInputs :
       \E max_results \in (1..MaxResultsBound) \cup {NoneInt} :
       \E llm \in LlmOutcomes(gruppen) :
       \E r \in {match_materials_batch(MaterialsOf(gruppen), max_results, llm)} :
              /\ call' = [op |-> "match_materials_batch", materials |-> MaterialsOf(gruppen),
                          max_results |-> max_results, llm |-> llm]
              /\ ret' = [raised |-> r.raised, results |-> r.results,
                         requests |-> r.requests]
              /\ _last_results' = r.last
              /\ _batch_detailed_results' = r.detailed
              /\ pc' = IF r.raised = "" THEN "done" ELSE "raised"
    /\ UNCHANGED <<settings, priming, _epd_cache, _epd_filter>>

ProcessGroupsBatch ==
    /\ pc = "ready"
    /\ \/ /\ call' = [op |-> "process_groups_batch", input_data |-> NoGruppen]
          /\ ret' = [raised |-> "", output_data |-> NoGruppen, requests |-> 0]
          /\ pc' = "done"
          /\ UNCHANGED <<_last_results, _batch_detailed_results>>
       \/ \E gruppen \in GruppenInputs :
          \E llm \in LlmOutcomes(gruppen) :
          \E r \in {process_groups_batch(gruppen, llm)} :
                 /\ call' = [op |-> "process_groups_batch",
                             input_data |-> [Gruppen |-> gruppen], llm |-> llm]
                 /\ ret' = [raised |-> r.raised, output_data |-> [Gruppen |-> r.Gruppen],
                            requests |-> r.requests]
                 /\ _last_results' = r.last
                 /\ _batch_detailed_results' = r.detailed
                 /\ pc' = IF r.raised = "" THEN "done" ELSE "raised"
    /\ UNCHANGED <<settings, priming, _epd_cache, _epd_filter>>

Next == MatchMaterialsBatch \/ ProcessGroupsBatch

Spec == Init /\ [][Next]_vars

(***************************************************************************)
(* The validator on its own: ConfidenceValidator's two static methods,     *)
(* under every configured minimum.                                         *)
(***************************************************************************)
\* an entry the catalog does not hold is validated as {}
EpdInputs == {Catalog[k] : k \in 1..Len(Catalog)} \cup {NoEpd}

Asphalt == [MATERIAL |-> "Asphalt", NAME |-> ""]

MaterialInputs == {Deck, Binder, Frostschutz, Asphalt}

RawConfidences == 0..100

Match(uuid, confidence) == [uuid |-> uuid, begruendung |-> "passt", confidence |-> confidence]

MatchPool ==
    { Match("1", 90), Match("1", 60), Match("2", 80), Match("3", 70), Match("4", 95),
      Match("77", 30), Match("5", 45), Match("5", NoneInt), Match("3", 25) }

\* the match lists of a batch: every short list for a batch of one material,
\* and for a batch of two a list for each
BatchInputs ==
    {[gruppen |-> <<g>>, matches |-> <<ms>>] :
        g \in {Deck, Frostschutz}, ms \in SeqsUpTo(MatchPool, MaxMatches)}
    \cup {[gruppen |-> <<Deck, Binder>>, matches |-> <<ms, <<m>>>>] :
            ms \in SeqsUpTo({Match("77", 30), Match("1", 90)}, MaxMatches),
            m \in MatchPool}

InitValidate == Constructed({<<TRUE, TRUE, TRUE>>}, {Catalog}, MinConfidences)

ValidateMatch ==
    /\ pc = "ready"
    /\ \E epd \in EpdInputs :
       \E material \in MaterialInputs :
       \E parsed \in {parse_material_input(material.MATERIAL, material.NAME)} :
       \E gpt_confidence \in RawConfidences :
       \E r \in {validate_match(epd, parsed, gpt_confidence)} :
              /\ call' = [op |-> "validate_match", epd |-> epd, material |-> material,
                          gpt_confidence |-> gpt_confidence]
              /\ ret' = r
              /\ pc' = IF r.raised = "" THEN "done" ELSE "raised"
    /\ UNCHANGED <<settings, priming, _epd_cache, _epd_filter, _last_results, _batch_detailed_results>>

ValidateBatchResults ==
    /\ pc = "ready"
    /\ \E input \in BatchInputs :
       \E r \in {validate_batch_results(input.matches, MaterialsOf(input.gruppen),
                                        _epd_cache)} :
              /\ call' = [op |-> "validate_batch_results",
                          matches_per_schicht |-> input.matches,
                          materials |-> MaterialsOf(input.gruppen)]
              /\ ret' = r
              /\ pc' = IF r.raised = "" THEN "done" ELSE "raised"
    /\ UNCHANGED <<settings, priming, _epd_cache, _epd_filter, _last_results, _batch_detailed_results>>

NextValidate == ValidateMatch \/ ValidateBatchResults

SpecValidate == InitValidate /\ [][NextValidate]_vars

(***************************************************************************)
(* The response parser on its own.  A well-formed response lists some of   *)
(* the groups 1..MaxGroups, each once, in any order.                       *)
(***************************************************************************)
MaxGroups == 3

\* the match lists a response can carry for group schicht, by variant
Variants == 1..3

ItemsFor(schicht, variant) ==
    CASE variant = 1 -> <<>>
      [] variant = 2 -> <<Item(NatToStr(schicht), "90")>>
      [] OTHER       -> <<Item(NatToStr(schicht + MaxGroups), "80"),
                          Item("\"" \o NatToStr(schicht) \o "\"", "")>>

\* the orders in which a response can list some of the groups, each once
Orders ==
    {order \in SeqsUpTo(1..MaxGroups, MaxGroups) :
        \A k, l \in 1..Len(order) : k # l => order[k] # order[l]}

\* the sequences of groups with pairwise different numbers
GroupSeqs ==
    UNION {{List([k \in 1..Len(order) |-> Group(order[k], ItemsFor(order[k], choice[k]))]) :
               choice \in [1..Len(order) -> Variants]} : order \in Orders}

\* responses that are not the document asked for
OtherResponses ==
    { <<>>,
      <<FENCE, "json">> \o RenderResponse(<<Group(1, <<Item("1", "90")>>)>>) \o <<FENCE>>,
      <<"Ergebnis", ":">> \o RenderResponse(<<Group(2, <<Item("2", "80")>>)>>),
      <<"Ergebnis", "{", "\"results\"", ":", "[", "}">>,
      <<"{", "\"results\"", ":", "[", "{", "\"schicht\"", ":", "1">>,
      <<"{", "\"results\"", ":", "null", "}">>,
      <<"{", "\"results\"", ":", "[", "1", "]", "}">>,
      <<"{", "\"matches\"", ":", "[", "]", "}">>,
      <<"[", "1", "]">>,
      <<"Keine", "Treffer">> }

\* A response that numbers its groups freely: a number can come twice, lie
\* outside 1..expected_count, be a fraction, or be written as a string.
MaxListed == 3

SchichtTokens == {"1", "2", "\"1\"", "1.5", NatToStr(MaxGroups + 1)}

\* the group at position k carries the one match 10 + k
ListedGroup(tok, k) == [schicht |-> tok, items |-> <<Item(NatToStr(10 + k), "90")>>]

ListedSeqs ==
    {List([k \in 1..Len(toks) |-> ListedGroup(toks[k], k)]) :
        toks \in SeqsUpTo(SchichtTokens, MaxListed)}
    \cup {<<ListedGroup("1.0", 1), ListedGroup("1", 2)>>}

RenderListedGroup(group) ==
    <<"{", "\"schicht\"", ":", group.schicht, ",", "\"matches\"", ":", "[">>
    \o Join([k \in 1..Len(group.items) |-> RenderItem(group.items[k])]) \o <<"]", "}">>

RenderListed(listed) ==
    <<"{", "\"results\"", ":", "[">>
    \o Join([k \in 1..Len(listed) |-> RenderListedGroup(listed[k])])
    \o <<"]", "}">>

\* the groups of a well-formed response with their numbers as written
ListedOf(groups) ==
    List([k \in 1..Len(groups) |->
            [schicht |-> NatToStr(groups[k].schicht), items |-> groups[k].items]])

InitParse == Constructed({<<TRUE, TRUE, TRUE>>}, {Catalog}, {DefaultMinConfidence})

ParseBatchResponse ==
    /\ pc = "ready"
    /\ \E expected_count \in 1..MaxGroups :
          \/ \E groups \in GroupSeqs :
             \E r \in {_parse_batch_response(RenderResponse(groups), expected_count)} :
                    /\ call' = [op |-> "_parse_batch_response", rendered |-> TRUE,
                                groups |-> groups, response |-> RenderResponse(groups),
                                expected_count |-> expected_count,
                                numbered |-> TRUE, listed |-> ListedOf(groups)]
                    /\ ret' = r
                    /\ pc' = IF r.raised = "" THEN "done" ELSE "raised"
          \/ \E listed \in ListedSeqs :
             \E r \in {_parse_batch_response(RenderListed(listed), expected_count)} :
                    /\ call' = [op |-> "_parse_batch_response", rendered |-> FALSE,
                                groups |-> <<>>, response |-> RenderListed(listed),
                                expected_count |-> expected_count,
                                numbered |-> TRUE, listed |-> listed]
                    /\ ret' = r
                    /\ pc' = IF r.raised = "" THEN "done" ELSE "raised"
          \/ \E response \in OtherResponses :
             \E r \in {_parse_batch_response(response, expected_count)} :
                    /\ call' = [op |-> "_parse_batch_response", rendered |-> FALSE,
                                groups |-> <<>>, response |-> response,
                                expected_count |-> expected_count,
                                numbered |-> FALSE, listed |-> <<>>]
                    /\ ret' = r
                    /\ pc' = IF r.raised = "" THEN "done" ELSE "raised"
    /\ UNCHANGED <<settings, priming, _epd_cache, _epd_filter, _last_results, _batch_detailed_results>>

NextParse == ParseBatchResponse

SpecParse == InitParse /\ [][NextParse]_vars

(***************************************************************************)
(* The glossary pre-filter on its own: one call of parse_material_input    *)
(* followed by filter_epds_for_material, over pools of catalog entries.    *)
(***************************************************************************)
MaxPool == 2

MaxEpds == 3

\* entries as the catalog client delivers them; a missing classification
\* reads as "" through epd.get("klassifizierung", "")
FilterEntries ==
    { [id |-> 1, name |-> "Asphaltbinder", klassifizierung |-> ""],
      [id |-> 2, name |-> "Asphaltdeckschicht", klassifizierung |-> ""],
      [id |-> 3, name |-> "Betonpflaster", klassifizierung |-> ""],
      [id |-> 4, name |-> "SMA 8 Deckschicht", klassifizierung |-> "Strassenbau"],
      [id |-> 5, name |-> "Schotter 0/32", klassifizierung |-> "Gestein"],
      [id |-> 6, name |-> "Gussasphalt Estrich", klassifizierung |-> "Asphalt"] }

BeispielPool ==
    << [id |-> 1, name |-> "Asphaltbinder", klassifizierung |-> ""],
       [id |-> 2, name |-> "Asphaltdeckschicht", klassifizierung |-> ""],
       [id |-> 3, name |-> "Betonpflaster", klassifizierung |-> ""] >>

Pools == SeqsUpTo(FilterEntries, MaxPool) \cup {BeispielPool}

FilterMaterials ==
    { [MATERIAL |-> "AC 11 D S", NAME |-> ""],
      [MATERIAL |-> "SMA 8 S", NAME |-> ""],
      [MATERIAL |-> "AC 16", NAME |-> ""],
      [MATERIAL |-> "Asphalt", NAME |-> "Deckschicht"],
      [MATERIAL |-> "Asphalt", NAME |-> ""],
      [MATERIAL |-> "Schotter 0/32", NAME |-> "Frostschutzschicht"],
      [MATERIAL |-> "", NAME |-> ""] }

InitFilter == Constructed({<<TRUE, TRUE, TRUE>>}, {Catalog}, {DefaultMinConfidence})

FilterEpdsForMaterial ==
    /\ pc = "ready"
    /\ \E epds \in Pools :
       \E material \in FilterMaterials :
       \E max_epds \in 0..MaxEpds :
       \E parsed \in {parse_material_input(material.MATERIAL, material.NAME)} :
       \E r \in {filter_epds_for_material(epds, parsed, max_epds)} :
              /\ call' = [op |-> "filter_epds_for_material", epds |-> epds,
                          material |-> material, parsed_material |-> parsed,
                          max_epds |-> max_epds]
              /\ ret' = r
              /\ pc' = IF r.raised = "" THEN "done" ELSE "raised"
    /\ UNCHANGED <<settings, priming, _epd_cache, _epd_filter, _last_results, _batch_detailed_results>>

NextFilter == FilterEpdsForMaterial

SpecFilter == InitFilter /\ [][NextFilter]_vars

(***************************************************************************)
(* parse_material_input on its own: designations written after the grammar *)
(* TYPE GRAIN [LAYER] [LOAD] in either letter case with blanks between and *)
(* around the tokens, and free material texts with layer names.            *)
(***************************************************************************)
MaxSpaces == 2

RECURSIVE Blanks(_, _)
Blanks(blank, n) == IF n = 0 THEN "" ELSE blank \o Blanks(blank, n - 1)

\* a token as written: "" for an absent token, lower case on request
Written(token, klein) ==
    IF token = NONE THEN "" ELSE IF klein THEN lower(token) ELSE token

\* the designation of the tokens, `between` blanks after each of the first
\* three tokens and `around` blanks before and after the text
Designation(typ, grain, schicht, beanspruchung, klein, blank, between, around) ==
    Blanks(blank, around) \o Written(typ, klein) \o Blanks(blank, between)
        \o grain \o Blanks(blank, between)
        \o Written(schicht, klein) \o Blanks(blank, between)
        \o Written(beanspruchung, klein) \o Blanks(blank, around)

GrammarInputs ==
    { [material_name |-> Designation(typ, grain, schicht, beanspruchung, klein,
                                     blank, between, around),
       schicht_name |-> "",
       grammar |-> TRUE,
       typ |-> typ, grain |-> DigitsToInt(grain), schicht |-> schicht,
       beanspruchung |-> beanspruchung, word |-> NONE] :
          typ \in {"AC", "SMA", "MA", "PA"}, grain \in {"8", "16"},
          schicht \in {NONE, "T", "B", "D", "TD"},
          beanspruchung \in {NONE, "S", "N", "L"},
          klein \in BOOLEAN, blank \in {" ", "\t"},
          between \in 0..MaxSpaces, around \in 0..MaxSpaces }

HintInputs ==
    { [material_name |-> material_name, schicht_name |-> schicht_name,
       grammar |-> FALSE,
       typ |-> NONE, grain |-> NoneInt, schicht |-> NONE, beanspruchung |-> NONE,
       word |-> NONE] :
          material_name \in {"Asphalt", "AC 16", "AC 11 D S", "SMA 8", "Gussasphalt",
                             "Schotter 0/32", "", "Splittmastixasphalt", "Drainasphalt",
                             "Splittmastix 0/8", "Offenporiger Belag", "Mastic",
                             "Bituminöse Tragschicht"},
          schicht_name \in {NONE, "", "Deckschicht", "Binderschicht",
                            "Asphalttragschicht", "Tragdeckschicht",
                            "Frostschutzschicht", "BINDER", "Verschleißschicht"} }

\* a type and a grain followed by running text, with or without a blank
TrailingWords ==
    {"Tragschicht", "Splitt", "Binderschicht", "Deckschicht S neu", "Nord",
     "Asphaltbeton", "TD Lage", "B S Asphaltbinder", "x T", "tdl"}

TrailingInputs ==
    { [material_name |-> typ \o " " \o grain \o sep \o word, schicht_name |-> schicht_name,
       grammar |-> FALSE,
       typ |-> typ, grain |-> DigitsToInt(grain), schicht |-> NONE, beanspruchung |-> NONE,
       word |-> word] :
          typ \in {"AC", "SMA"}, grain \in {"11", "16"}, sep \in {"", " "},
          word \in TrailingWords, schicht_name \in {"", "Deckschicht"} }

InitGlossar == Constructed({<<TRUE, TRUE, TRUE>>}, {Catalog}, {DefaultMinConfidence})

ParseMaterialInput ==
    /\ pc = "ready"
    /\ \E input \in GrammarInputs \cup HintInputs \cup TrailingInputs :
       \E r \in {parse_material_input(input.material_name, input.schicht_name)} :
              /\ call' = [op |-> "parse_material_input"] @@ input
              /\ ret' = [raised |-> ""] @@ r
              /\ pc' = "done"
    /\ UNCHANGED <<settings, priming, _epd_cache, _epd_filter, _last_results, _batch_detailed_results>>

NextGlossar == ParseMaterialInput

SpecGlossar == InitGlossar /\ [][NextGlossar]_vars

(***************************************************************************)
(* The matcher's lifetime: the constructor with its catalog requests, the  *)
(* detail requests of the worker pool in any order of completion, and then *)
(* any sequence of batch and single match calls.                           *)
(***************************************************************************)
\* what GET /api/Datasets can answer: nothing, a row without id, two data
\* sets, and three data sets with the first listed twice
ServerRows ==
    { <<>>,
      <<[id |-> NoneInt, name |-> "ohne Kennung", klassifizierung |-> NONE]>>,
      <<Catalog[1], Catalog[2]>>,
      <<Catalog[1], Catalog[2], Catalog[1], Catalog[3]>> }

ListOutcomes ==
    {[kind |-> "error", rows |-> <<>>]} \cup {[kind |-> "rows", rows |-> rows] : rows \in ServerRows}

\* what GET /api/Datasets/{id} answers when it answers
ServerDetail(epd_id) ==
    [id |-> epd_id, name |-> Catalog[epd_id].name,
     klassifizierung |-> Catalog[epd_id].klassifizierung,
     technischeBeschreibung |-> "Mischgut"]

MaxEpdInPrompts == {2, DefaultMaxEpdInPrompt}

\* a request's outcomes: a failure, a well-formed answer naming entry 1, and
\* prose around a truncated document
BatchOutcomes ==
    { [kind |-> "error", text |-> <<>>],
      Content(RenderResponse(<<Group(1, <<Item("1", "90")>>)>>)),
      Content(<<"Ergebnis", "{", "\"results\"", ":", "[", "}">>) }

SingleOutcomes ==
    { [kind |-> "error", text |-> <<>>],
      Content(<<"{", "\"matches\"", ":", "[">> \o RenderItem(Item("2", "80")) \o <<"]", "}">>),
      Content(<<"Ergebnis", "{", "\"matches\"", ":", "[", "}">>) }

\* the start of AzureEPDMatcher(): nothing requested, nothing loaded
InitLifetime ==
    /\ USE_GLOSSAR = TRUE
    /\ USE_GLOSSAR_FILTER = TRUE
    /\ USE_CONFIDENCE_VALIDATION = TRUE
    /\ MIN_CONFIDENCE = DefaultMinConfidence
    /\ MAX_EPD_IN_PROMPT \in MaxEpdInPrompts
    /\ USE_DETAIL_MATCHING \in BOOLEAN
    /\ _epd_filter = FALSE
    /\ _epd_cache = <<>>
    /\ list_calls = 0
    /\ epds_list = <<>>
    /\ futures = <<>>
    /\ collected = {}
    /\ details = <<>>
    /\ _last_results = <<>>
    /\ _batch_detailed_results = <<>>
    /\ pc = "new"
    /\ call = [op |-> "none"]
    /\ ret = [raised |-> ""]

\* __init__ up to the submission of the detail requests.  count_ok: the count
\* request of _print_initialization_info answers; listing: the list request.
Construct ==
    /\ pc = "new"
    /\ \E count_ok \in BOOLEAN :
       \E listing \in ListOutcomes :
          /\ call' = [op |-> "__init__", count_ok |-> count_ok, listing |-> listing]
          /\ _epd_filter' = (USE_GLOSSAR /\ USE_GLOSSAR_FILTER)
          /\ IF ~count_ok \/ listing.kind = "error"
             THEN /\ pc' = "failed"
                  /\ ret' = [raised |-> "HTTPError"]
                  /\ list_calls' = IF count_ok THEN 1 ELSE 0
                  /\ UNCHANGED <<_epd_cache, epds_list, futures>>
             ELSE \E load \in {LoadFrom(list_epds(listing.rows))} :
                  /\ pc' = IF load.done THEN "ready" ELSE "fetching"
                  /\ ret' = [raised |-> ""]
                  /\ list_calls' = 1
                  /\ _epd_cache' = load.cache
                  /\ epds_list' = load.epds_list
                  /\ futures' = [epd_id \in load.submitted |-> "running"]
    /\ UNCHANGED <<settings, collected, details, _last_results, _batch_detailed_results>>

\* a worker's _get_single_detail ends: with the data set, or with an
\* exception or None
GetSingleDetail ==
    /\ pc = "fetching"
    /\ \E epd_id \in DOMAIN futures :
       \E outcome \in {"detail", "failed"} :
          /\ futures[epd_id] = "running"
          /\ futures' = [futures EXCEPT ![epd_id] = outcome]
    /\ UNCHANGED <<settings, list_calls, epds_list, collected, details, _epd_cache,
                   _epd_filter, _last_results, _batch_detailed_results, pc, call, ret>>

\* one pass of `for future in as_completed(future_to_id)`: a finished future
\* not taken before; its detail is appended, its failure only counted
CollectDetail ==
    /\ pc = "fetching"
    /\ \E epd_id \in DOMAIN futures \ collected :
          /\ futures[epd_id] # "running"
          /\ collected' = collected \cup {epd_id}
          /\ details' = IF futures[epd_id] = "detail"
                        THEN Append(details, _normalize_epd_detail(ServerDetail(epd_id)))
                        ELSE details
    /\ UNCHANGED <<settings, list_calls, epds_list, futures, _epd_cache,
                   _epd_filter, _last_results, _batch_detailed_results, pc, call, ret>>

\* get_epd_details returns and _load_and_cache_epds sets the cache; the
\* locals of get_epd_details are gone
FinishPriming ==
    /\ pc = "fetching"
    /\ collected = DOMAIN futures
    /\ _epd_cache' = CacheFrom(details, epds_list)
    /\ collected' = {}
    /\ details' = <<>>
    /\ pc' = "ready"
    /\ UNCHANGED <<settings, list_calls, epds_list, futures, _epd_filter,
                   _last_results, _batch_detailed_results, call, ret>>

\* the matcher is constructed and no call is in progress
Serving == pc \in {"ready", "done", "raised"}

\* a batch call of the constructed matcher
BatchRequest ==
    /\ Serving
    /\ \E llm \in BatchOutcomes :
       \E r \in {match_materials_batch(MaterialsOf(<<Deck>>), NoneInt, llm)} :
              /\ call' = [op |-> "match_materials_batch", materials |-> MaterialsOf(<<Deck>>),
                          max_results |-> NoneInt, llm |-> llm]
              /\ ret' = [raised |-> r.raised, results |-> r.results,
                         requests |-> r.requests]
              /\ _last_results' = r.last
              /\ _batch_detailed_results' = r.detailed
              /\ pc' = IF r.raised = "" THEN "done" ELSE "raised"
    /\ UNCHANGED <<settings, priming, _epd_cache, _epd_filter>>

\* a single-material call of the constructed matcher
SingleRequest ==
    /\ Serving
    /\ \E llm \in SingleOutcomes :
       \E r \in {match_material(MaterialsOf(<<Binder>>)[1], NoneInt, llm)} :
              /\ call' = [op |-> "match_material", material |-> MaterialsOf(<<Binder>>)[1],
                          max_results |-> NoneInt, llm |-> llm]
              /\ ret' = [raised |-> r.raised, ids |-> r.ids, requests |-> r.requests]
              /\ _last_results' = r.last
              /\ _epd_cache' = r.cache
              /\ pc' = IF r.raised = "" THEN "done" ELSE "raised"
    /\ UNCHANGED <<settings, priming, _epd_filter, _batch_detailed_results>>

NextLifetime ==
    \/ Construct
    \/ GetSingleDetail
    \/ CollectDetail
    \/ FinishPriming
    \/ BatchRequest
    \/ SingleRequest

SpecLifetime == InitLifetime /\ [][NextLifetime]_vars

(***************************************************************************)
(* Properties.                                                             *)
(***************************************************************************)
Called(op) == pc # "ready" /\ call.op = op

Returned(op) == pc = "done" /\ call.op = op

\* the validation stage runs
Validating == USE_GLOSSAR /\ USE_CONFIDENCE_VALIDATION

C2_AtLeastConfiguredMinimum ==
    Returned("validate_batch_results") =>
        \A i \in 1..Len(ret.results) :
            \A k \in 1..Len(ret.results[i]) :
                ret.results[i][k].confidence >= MIN_CONFIDENCE

\* the match an item of a rendered response decodes to
Unquoted(tok) == IF IsStrTok(tok) THEN SubSeq(tok, 2, Len(tok) - 1) ELSE tok

ItemAsMatch(item) ==
    [uuid |-> Unquoted(item.id), begruendung |-> "passt",
     confidence |-> IF IsNatText(item.confidence)
                    THEN DigitsToInt(item.confidence) ELSE NoneInt]

ItemsAsMatches(items) == [k \in 1..Len(items) |-> ItemAsMatch(items[k])]

\* the matches of the group numbered i, none when the response has no such group
MatchesOfGroup(groups, i) ==
    IF \E k \in 1..Len(groups) : groups[k].schicht = i
    THEN ItemsAsMatches(groups[CHOOSE k \in 1..Len(groups) : groups[k].schicht = i].items)
    ELSE <<>>

\* C3: for a response that lists any of the groups in any order,
\* _parse_batch_response returns for material i exactly the matches of the
\* group whose 'schicht' is i, and the empty list when that group is missing;
\* the lists of the other materials do not depend on it.
C3_CorrelatedBySchicht ==
    (Called("_parse_batch_response") /\ call.rendered) =>
        /\ ret.raised = ""
        /\ Len(ret.all_matches) = call.expected_count
        /\ \A i \in 1..call.expected_count :
               ret.all_matches[i] = MatchesOfGroup(call.groups, i)

\* C3 witness: group 2 is listed before group 1, group 3 is left out, and
\* material 1 and 2 got their own matches, material 3 none
C3_PermutedAndOmitted ==
    /\ Returned("_parse_batch_response")
    /\ call.rendered
    /\ call.expected_count = 3
    /\ Len(call.groups) = 2
    /\ call.groups[1].schicht = 2
    /\ call.groups[2].schicht = 1
    /\ ret.all_matches[1] # <<>>
    /\ ret.all_matches[2] # <<>>
    /\ ret.all_matches[1] # ret.all_matches[2]
    /\ ret.all_matches[3] = <<>>

\* C4 as claimed: _parse_batch_response never raises; a text it cannot decode
\* gives an empty list for each of the expected_count groups.
C4_NeverRaises ==
    Called("_parse_batch_response") =>
        /\ ret.raised = ""
        /\ Len(ret.all_matches) = call.expected_count
        /\ (~call.rendered /\ ~JsonLoads(call.response).ok) =>
               \A i \in 1..call.expected_count : ret.all_matches[i] = <<>>

\* C5: when the request that match_materials_batch issued fails, the call
\* returns normally with one result per material, each with an empty id
\* list and an empty confidence map.
C5_FailedRequestGivesEmptyResults ==
    (Called("match_materials_batch") /\ ret.requests = 1 /\ call.llm.kind = "error") =>
        /\ pc = "done"
        /\ ret.raised = ""
        /\ Len(ret.results) = Len(call.materials)
        /\ \A k \in 1..Len(ret.results) :
               /\ ret.results[k].ids = <<>>
               /\ DOMAIN ret.results[k].confidence = {}

\* C5 witness: a batch of two materials whose request failed
C5_FailedRequestOfTwo ==
    /\ Returned("match_materials_batch")
    /\ ret.requests = 1
    /\ call.llm.kind = "error"
    /\ Len(call.materials) = 2
    /\ Len(ret.results) = 2

\* the matches the parser hands to the validation stage
Decoded == _parse_batch_response(_call_azure_api(call.llm), Len(call.materials))

HasUnsetConfidence(all_matches) ==
    \E i \in 1..Len(all_matches) :
        \E k \in 1..Len(all_matches[i]) : all_matches[i][k].confidence = NoneInt

\* C6 as claimed: when the response holds a match with an identifier and a
\* missing or non-numeric confidence, match_materials_batch with the
\* validation on still completes and returns a result for every material.
C6_UnsetConfidenceCompletes ==
    ( /\ Called("match_materials_batch")
      /\ Validating
      /\ ret.requests = 1
      /\ Decoded.raised = ""
      /\ HasUnsetConfidence(Decoded.all_matches) ) =>
        /\ pc = "done"
        /\ Len(ret.results) = Len(call.materials)

NoDuplicates(ids) == \A i, j \in 1..Len(ids) : i # j => ids[i] # ids[j]

\* C7 as claimed: the id list match_materials_batch returns for a material
\* holds no identifier twice.
C7_NoDuplicateIds ==
    Returned("match_materials_batch") =>
        \A k \in 1..Len(ret.results) : NoDuplicates(ret.results[k].ids)

\* C8: with the validation on, the ids match_materials_batch returns for a
\* material are those of the leading validated candidates, and of any two
\* positions the earlier has a validated confidence at least that of the later.
C8_IdsByDescendingConfidence ==
    (Returned("match_materials_batch") /\ Validating) =>
        \A k \in 1..Len(ret.results) :
            \A i, j \in 1..Len(ret.results[k].ids) :
                i < j =>
                    /\ _batch_detailed_results[k][i].uuid = ret.results[k].ids[i]
                    /\ _batch_detailed_results[k][j].uuid = ret.results[k].ids[j]
                    /\ _batch_detailed_results[k][i].confidence
                           >= _batch_detailed_results[k][j].confidence

\* C8 witness: the response lists 77 before 1, the ids come back as 1, 77
C8_Reordered ==
    /\ Returned("match_materials_batch")
    /\ Validating
    /\ call.llm = Content(RenderResponse(<<Group(1, <<Item("77", "30"), Item("1", "90")>>)>>))
    /\ ret.results[1].ids = <<"1", "77">>
    /\ _batch_detailed_results[1][1].confidence > _batch_detailed_results[1][2].confidence

UuidsOf(matches) == [k \in 1..Len(matches) |-> matches[k].uuid]

\* the first n different ids of a list, in its order
FirstDistinct(ids, n) ==
    Take(Pick(ids, {k \in 1..Len(ids) : \A j \in 1..(k - 1) : ids[j] # ids[k]}), n)

\* C9 as claimed: the ids written to a group are the first max_results
\* different ids of its validated candidates.
C9_FirstDistinctWritten ==
    (Returned("process_groups_batch") /\ ret.requests = 1) =>
        \A k \in 1..Len(ret.output_data.Gruppen) :
            ret.output_data.Gruppen[k].id
                = FirstDistinct(UuidsOf(_batch_detailed_results[k]), BatchMaxResults)

FirstPosition(matches, uuid) ==
    CHOOSE k \in 1..Len(matches) :
        /\ matches[k].uuid = uuid
        /\ \A j \in 1..(k - 1) : matches[j].uuid # uuid

\* C10 as claimed: every key of a material's confidence map is in its id
\* list, and its value is the validated confidence of the first candidate of
\* that id.
C10_MapDescribesIds ==
    (Returned("match_materials_batch") /\ ret.requests = 1) =>
        \A k \in 1..Len(ret.results) :
            \A u \in DOMAIN ret.results[k].confidence :
                /\ \E i \in 1..Len(ret.results[k].ids) : ret.results[k].ids[i] = u
                /\ ret.results[k].confidence[u]
                       = _batch_detailed_results[k][FirstPosition(_batch_detailed_results[k],
                                                                  u)].confidence


\* the entry's text contains a search term of the asphalt type
HasTypeKeyword(epd, typ) ==
    AnyIn(LowerAll(ASPHALT_TYPES[typ].suchbegriffe), EpdCombined(epd))

\* the entry's text contains the required layer keyword, if one is set
HasLayerKeyword(epd, parsed_material) ==
    parsed_material.schicht_epd_muss_enthalten # NONE
        => Contains(lower(parsed_material.schicht_epd_muss_enthalten), EpdCombined(epd))

\* C11: for a paving classification every entry of the primary tier contains
\* a type keyword of the classified type and the required layer keyword, and
\* a type-matching entry without the layer keyword is not in the primary tier.
C11_PrimaryHasTypeAndLayer ==
    (Returned("filter_epds_for_material") /\ call.parsed_material.ist_asphalt)
        => \A k \in 1..Len(ret.primaer) :
               /\ HasTypeKeyword(ret.primaer[k], call.parsed_material.typ)
               /\ HasLayerKeyword(ret.primaer[k], call.parsed_material)

\* C12: whatever the classification, no entry of either returned tier
\* contains a globally excluded term.
C12_NoExcludedEntry ==
    Returned("filter_epds_for_material")
        => /\ \A k \in 1..Len(ret.primaer) :
                  ~_ist_ausgeschlossen(EpdCombined(ret.primaer[k]))
           /\ \A k \in 1..Len(ret.sekundaer) :
                  ~_ist_ausgeschlossen(EpdCombined(ret.sekundaer[k]))

\* sub is seq with some elements left out, the rest in seq's order
RECURSIVE IsSubsequence(_, _)
IsSubsequence(sub, seq) ==
    IF sub = <<>> THEN TRUE
    ELSE IF seq = <<>> THEN FALSE
    ELSE IF Head(sub) = Head(seq) THEN IsSubsequence(Tail(sub), Tail(seq))
    ELSE IsSubsequence(sub, Tail(seq))

\* C13: the two tiers together hold at most max_epds entries, each tier is a
\* subsequence of the pool in pool order, and the secondary tier is empty
\* when the primary tier alone reaches max_epds.
C13_LimitedInPoolOrder ==
    Returned("filter_epds_for_material")
        => /\ Len(ret.primaer) + Len(ret.sekundaer) <= call.max_epds
           /\ IsSubsequence(ret.primaer, call.epds)
           /\ IsSubsequence(ret.sekundaer, call.epds)
           /\ (Len(ret.primaer) >= call.max_epds => ret.sekundaer = <<>>)

\* a paving material whose two tiers are both non-empty and cut by the limit
C13_SecondaryFillsRemainder ==
    /\ Returned("filter_epds_for_material")
    /\ call.parsed_material.ist_asphalt
    /\ call.max_epds < Len(call.epds)
    /\ Len(ret.primaer) + Len(ret.sekundaer) = call.max_epds
    /\ ret.primaer # <<>>
    /\ ret.sekundaer # <<>>

\* the entries of a list, as a set
EntriesOf(seq) == {seq[k] : k \in 1..Len(seq)}

\* the pool entries a paving classification keeps as candidates
Candidates(epds, parsed_material) ==
    {epds[k] : k \in {j \in 1..Len(epds) :
        Kept(EpdCombined(epds[j]),
             LowerAll(ASPHALT_TYPES[parsed_material.typ].suchbegriffe))}}

\* C14: for a paving classification without a required layer keyword the
\* filter completes without raising, and with room for the whole pool every
\* non-excluded type-matching entry is returned.
C14_NoLayerKeywordCompletes ==
    (/\ Called("filter_epds_for_material")
     /\ call.parsed_material.ist_asphalt
     /\ call.parsed_material.schicht_epd_muss_enthalten = NONE)
        => /\ pc = "done"
           /\ (call.max_epds >= Len(call.epds)
                  => Candidates(call.epds, call.parsed_material)
                         \subseteq (EntriesOf(ret.primaer) \cup EntriesOf(ret.sekundaer)))

\* the layer of a designation: as written, D if none is written for SMA, MA, PA
ImpliedLayer(typ, schicht) ==
    IF schicht = NONE /\ typ \in {"SMA", "MA", "PA"} THEN "D" ELSE schicht

\* C15: a designation TYPE GRAIN [LAYER] [LOAD], in either letter case and
\* with any blanks between and around its tokens, is classified with exactly
\* that type, grain, layer and load; absent tokens stay unset, except that a
\* missing layer of SMA, MA or PA is D; the required keyword is the one of
\* the resulting layer.
C15_GrammarParsedExactly ==
    (Returned("parse_material_input") /\ call.grammar)
        => /\ ret.typ = call.typ
           /\ ret.groesstkorn_mm = call.grain
           /\ ret.schicht = ImpliedLayer(call.typ, call.schicht)
           /\ ret.beanspruchung = call.beanspruchung
           /\ ret.schicht_epd_muss_enthalten =
                  IF ret.schicht = NONE THEN NONE
                  ELSE LAYER_CODES[ret.schicht].epd_muss_enthalten

\* a lower-case SMA designation without layer, blanks around it, parsed to D
C15_LowerCaseDefaultLayer ==
    /\ Returned("parse_material_input")
    /\ call.grammar
    /\ call.typ = "SMA"
    /\ call.schicht = NONE
    /\ call.material_name # upper(call.material_name)
    /\ call.material_name # strip(call.material_name)
    /\ ret.schicht = "D"
    /\ ret.schicht_epd_muss_enthalten = "Deck"

\* the layer codes one of whose name variants is in the layer name
HintedLayers(schicht_name) ==
    {LayerOrder[k] : k \in {j \in 1..Len(LayerOrder) :
        AnyIn(LAYER_CODES[LayerOrder[j]].name_varianten, lower(schicht_name))}}

\* C16: when the material text has not determined a layer (also when the
\* grammar matched type and grain only) and the layer name contains a
\* layer-name variant, the classification carries the layer code of such a
\* variant and its required keyword.
C16_LayerFromHint ==
    (/\ Returned("parse_material_input")
     /\ _parse_normierte_bezeichnung(call.material_name).schicht = NONE
     /\ call.schicht_name # NONE
     /\ HintedLayers(call.schicht_name) # {})
        => /\ ret.schicht \in HintedLayers(call.schicht_name)
           /\ ret.schicht_epd_muss_enthalten = LAYER_CODES[ret.schicht].epd_muss_enthalten

\* the cache entry the priming owes to a listed entry: its detail form if
\* the detail request succeeded, else the entry as listed
OwedEntry(listed) ==
    IF futures[listed.id] = "detail" THEN _normalize_epd_detail(ServerDetail(listed.id))
    ELSE listed

\* C17: with detail enrichment on, whatever the order in which the detail
\* requests complete and whichever of them fail, the primed cache holds
\* exactly one entry for each id of the truncated list: the detail form if
\* the id's request succeeded, the listed form if it failed.
C17_OneEntryPerListedId ==
    (Serving /\ USE_DETAIL_MATCHING /\ epds_list # <<>>)
        => /\ Len(_epd_cache) = Len(epds_list)
           /\ \A k \in 1..Len(epds_list) :
                  \E j \in 1..Len(_epd_cache) : _epd_cache[j] = OwedEntry(epds_list[k])

\* C18: when the list request brings no usable entry the construction
\* fails, so no matcher takes match requests; and when the count request
\* has answered, the construction fails only if the list request fails or
\* brings nothing usable.
C18_EmptyListFailsConstruction ==
    /\ (list_calls = 1 /\ epds_list = <<>>) => pc = "failed"
    /\ (pc = "failed" /\ call.count_ok)
           => (call.listing.kind = "error" \/ list_epds(call.listing.rows) = <<>>)

\* C19: a constructed matcher has issued the list request exactly once, and
\* no batch or single match call of it, whatever the LLM answers, issues
\* another or changes the cached pool.
C19_ListedOnceCacheFrozen ==
    /\ [](Serving => list_calls = 1)
    /\ [][Serving => (_epd_cache' = _epd_cache /\ list_calls' = list_calls)]_vars

\* a single call that returned ids, after a batch call, on a cache of details
C19_ServedBothKinds ==
    /\ Returned("match_material")
    /\ ret.ids # <<>>
    /\ _batch_detailed_results # <<>>
    /\ USE_DETAIL_MATCHING
    /\ Len(_epd_cache) >= 2

\* C20: a batch call issues at most one LLM request, exactly one on a
\* non-empty cache and none on an empty one, and always ends with one
\* result for each material.
C20_OneRequestOneResultEach ==
    Called("match_materials_batch")
        => /\ ret.requests <= 1
           /\ ret.requests = (IF _epd_cache # <<>> THEN 1 ELSE 0)
           /\ pc = "done"
           /\ Len(ret.results) = Len(call.materials)

InRange(confidence) == confidence = NoneInt \/ confidence \in 0..100

AllInRange(all_matches) ==
    \A i \in 1..Len(all_matches) :
        \A k \in 1..Len(all_matches[i]) : InRange(all_matches[i][k].confidence)

\* C21: whatever the response of the request, every confidence the batch
\* pipeline handles is unset or an integer of 0..100: the decoded one after
\* _normalize_confidence, the corrected one after the validation, and every
\* value of a returned confidence map.
C21_ConfidencesUnsetOrInRange ==
    (Called("match_materials_batch") /\ ret.requests = 1) =>
        /\ With(Decoded, LAMBDA decoded :
                    decoded.raised = "" => AllInRange(decoded.all_matches))
        /\ AllInRange(_batch_detailed_results)
        /\ \A k \in 1..Len(ret.results) :
               \A u \in DOMAIN ret.results[k].confidence :
                   ret.results[k].confidence[u] \in 0..100

\* C21 witness: the response gives 150 and -5, the map returned without the
\* validation holds 100 and 0
C21_ClampedBothWays ==
    /\ Returned("match_materials_batch")
    /\ ~Validating
    /\ call.llm = Content(RenderResponse(OutOfRange))
    /\ ret.requests = 1
    /\ ret.results[1].confidence["1"] = 100
    /\ ret.results[1].confidence["4"] = 0
    /\ ret.results[2].confidence["2"] = 100

\* the four tests of the cascade, each on its own
TermExcluded(combined) ==
    \E k \in 1..Len(AUSSCHLUSS_BEGRIFFE) : Contains(lower(AUSSCHLUSS_BEGRIFFE[k]), combined)

CategoryMismatch(combined, parsed) ==
    /\ _get_material_type(parsed) # NONE
    /\ \E k \in 1..Len(MATERIAL_MISMATCHES[_get_material_type(parsed)]) :
           Contains(MATERIAL_MISMATCHES[_get_material_type(parsed)][k], combined)

LayerKeywordAbsent(combined, parsed) ==
    /\ parsed.schicht_epd_muss_enthalten \notin {NONE, ""}
    /\ ~Contains(lower(parsed.schicht_epd_muss_enthalten), combined)

NoAsphaltKeyword(combined, parsed) ==
    /\ parsed.ist_asphalt
    /\ \A kw \in {"asphalt", "bitumen", "bituminös"} : ~Contains(kw, combined)

BroadPavingType(combined, parsed) ==
    parsed.ist_asphalt /\ (Contains("asphalt", combined) \/ Contains("bituminös", combined))

\* what the first applicable test makes of the raw confidence
CascadeConfidence(combined, parsed, raw) ==
    IF TermExcluded(combined) THEN Min(raw, 25)
    ELSE IF CategoryMismatch(combined, parsed) THEN Min(raw, 20)
    ELSE IF LayerKeywordAbsent(combined, parsed)
    THEN (IF BroadPavingType(combined, parsed) THEN Min(raw, 60) ELSE Min(raw, 35))
    ELSE IF NoAsphaltKeyword(combined, parsed) THEN Min(raw, 35)
    ELSE raw

\* the words its reason begins with
CascadeGrund(combined, parsed) ==
    IF TermExcluded(combined) THEN "Ausschluss-Begriff '"
    ELSE IF CategoryMismatch(combined, parsed) THEN "'"
    ELSE IF LayerKeywordAbsent(combined, parsed) THEN "Schicht-Begriff '"
    ELSE IF NoAsphaltKeyword(combined, parsed) THEN "Kein Asphalt-Bezug im EPD"
    ELSE "Validiert"

CallParsed == parse_material_input(call.material.MATERIAL, call.material.NAME)

C23_MismatchCeilingIsExclusionCeiling ==
    ( /\ Called("validate_match")
      /\ ~TermExcluded(EpdCombined(call.epd))
      /\ CategoryMismatch(EpdCombined(call.epd), CallParsed) ) =>
        ret.confidence
            = Min(call.gpt_confidence, ValidateCap(1, EpdCombined(call.epd), CallParsed))

\* the words of a text: its maximal runs of characters other than blanks
WordsOf(text) ==
    { SubSeq(text, i, j) : <<i, j>> \in
        { <<i, j>> \in (1..Len(text)) \X (1..Len(text)) :
            /\ i <= j
            /\ \A k \in i..j : CharAt(text, k) # " "
            /\ (i = 1 \/ CharAt(text, i - 1) = " ")
            /\ (j = Len(text) \/ CharAt(text, j + 1) = " ") } }

\* the significant words of a material: the words of its text and of its
\* hint that are longer than three characters, in lower case
SignificantWords(material) ==
    { lower(w) : w \in { w \in WordsOf(material.MATERIAL) \cup WordsOf(material.NAME) :
                           Len(w) > 3 } }

HasSignificantWord(epd, material) ==
    \E w \in SignificantWords(material) : Contains(w, EpdCombined(epd))

\* C24 as claimed: for a classification that is not paving and a material
\* with a significant word, filter_epds_for_material keeps only entries
\* that contain such a word; only a material without significant words gets
\* the unfiltered prefix of the pool.
C24_UnknownKeepsOnlyWordMatches ==
    ( /\ Called("filter_epds_for_material")
      /\ ~call.parsed_material.ist_asphalt
      /\ ret.raised = "" ) =>
        IF SignificantWords(call.material) # {}
        THEN \A k \in 1..Len(ret.primaer) : HasSignificantWord(ret.primaer[k], call.material)
        ELSE ret.primaer = Take(call.epds, call.max_epds)

\* the parsed material of group i of a validate_batch_results call
GroupParsed(i) ==
    parse_material_input(call.materials[i].material_name, call.materials[i].NAME)

\* the entry text that the candidate uuid is validated against
CandidateText(uuid) == EpdCombined(EpdById(_epd_cache, uuid))

\* the validated matches of group i that carry uuid
KeptOf(i, uuid) == {k \in 1..Len(ret.results[i]) : ret.results[i][k].uuid = uuid}

CandidateList ==
    IF _epd_filter
    THEN filter_for_materials(_epd_cache, call.materials, FILTER_MAX_PER_MATERIAL).combined_epds
    ELSE _epd_cache

Unlisted(uuid, epds) == \A k \in 1..Len(epds) : IntToStr(epds[k].id) # uuid

BatchParsed(i) ==
    parse_material_input(call.materials[i].material_name, call.materials[i].NAME)

\* what the validation makes of the raw confidence of an unlisted identifier
UnlistedConfidence(parsed, raw) ==
    IF parsed.ist_asphalt THEN Min(raw, 35)
    ELSE IF parsed.schicht_epd_muss_enthalten \in {NONE, ""} THEN raw
    ELSE Min(raw, 35)

\* C26: a candidate whose identifier is not in the candidate list is
\* validated against an empty entry text and not rejected: for a material
\* that is not paving and has no required layer keyword it keeps its raw
\* confidence, uncorrected, for a paving material it is capped at 35, and
\* with a raw confidence of at least 25 it is in the result of
\* match_materials_batch.
C26_UnlistedIdNotRejected ==
    (Returned("match_materials_batch") /\ Validating /\ ret.requests = 1) =>
        With(Decoded.all_matches, LAMBDA all_matches :
        With(CandidateList, LAMBDA candidates :
        \A i \in 1..Len(all_matches) :
            \A k \in 1..Len(all_matches[i]) :
                With(all_matches[i][k], LAMBDA match :
                    (Unlisted(match.uuid, candidates) /\ match.confidence >= 25) =>
                        /\ match.uuid \in DOMAIN ret.results[i].confidence
                        /\ \E j \in 1..Len(_batch_detailed_results[i]) :
                               With(_batch_detailed_results[i][j], LAMBDA kept :
                                   /\ kept.uuid = match.uuid
                                   /\ kept.name = ""
                                   /\ kept.confidence
                                          = UnlistedConfidence(BatchParsed(i), match.confidence)
                                   /\ (kept.confidence = match.confidence)
                                          = (kept.begruendung = match.begruendung)
                                   /\ (j <= Len(ret.results[i].ids)
                                          => ret.results[i].ids[j] = match.uuid)))))

\* C26 witness: the identifier 77 of no entry comes back for the frost
\* blanket with its raw confidence 30 and its rationale as given
C26_UnlistedReturned ==
    /\ Returned("match_materials_batch")
    /\ Validating
    /\ ret.requests = 1
    /\ call.materials = MaterialsOf(<<Frostschutz>>)
    /\ call.llm = Content(RenderResponse(<<Group(1, <<Item("77", "30")>>)>>))
    /\ Unlisted("77", CandidateList)
    /\ ret.results[1].ids = <<"77">>
    /\ ret.results[1].confidence["77"] = 30
    /\ _batch_detailed_results[1][1].begruendung = "passt"

\* the number as written equals the integer n: the numeral of n, or the
\* numeral with a zero fraction, which decodes to a float equal to n
Denotes(tok, n) == tok = NatToStr(n) \/ tok = NatToStr(n) \o ".0"

\* positions of the listed groups whose number equals n
NumberedAs(listed, n) == {k \in 1..Len(listed) : Denotes(listed[k].schicht, n)}

FirstNumberedAs(listed, n) ==
    CHOOSE k \in NumberedAs(listed, n) : \A j \in NumberedAs(listed, n) : k <= j

\* C27: when _parse_batch_response returns, the result has expected_count
\* lists, and list i is built from the first group, in response order, whose
\* 'schicht' equals the integer i: later groups of that number are ignored,
\* and a group whose number is outside 1..expected_count, not integral or
\* a string contributes to no list.
C27_FirstGroupOfEachNumber ==
    /\ Returned("_parse_batch_response") => Len(ret.all_matches) = call.expected_count
    /\ (Called("_parse_batch_response") /\ call.numbered) =>
           /\ ret.raised = ""
           /\ \A i \in 1..call.expected_count :
                  ret.all_matches[i]
                      = IF NumberedAs(call.listed, i) = {} THEN <<>>
                        ELSE ItemsAsMatches(
                                 call.listed[FirstNumberedAs(call.listed, i)].items)

\* C27 witness: of the groups numbered "1", 1, 1 the second makes list 1, the
\* string and the repetition make none, and list 2 is empty
C27_StringAndRepetitionIgnored ==
    /\ Returned("_parse_batch_response")
    /\ call.numbered
    /\ call.expected_count = 2
    /\ Len(call.listed) = 3
    /\ call.listed[1].schicht = "\"1\""
    /\ call.listed[2].schicht = "1"
    /\ call.listed[3].schicht = "1"
    /\ ret.all_matches = << <<Match("12", 90)>>, <<>> >>

\* the type at position k is the first of the order with a fuzzy keyword in t
FirstTypeWithKeyword(order, k, t) ==
    /\ AnyIn(ASPHALT_TYPES[order[k]].fuzzy_matches, t)
    /\ \A j \in 1..(k - 1) : ~AnyIn(ASPHALT_TYPES[order[j]].fuzzy_matches, t)

\* C28: when the grammar does not match, the type is that of the first of
\* AC, SMA, MA, PA with a fuzzy keyword in the lower-cased text; a text that
\* contains 'asphalt', 'aspahlt', 'bitumen' or 'bituminös' is AC, whatever
\* keywords of the other types it contains.
C28_FuzzyTypeFirstInOrder ==
    (Returned("parse_material_input") /\ ret.quelle # "bezeichnung") =>
        /\ \A k \in 1..4 :
               FirstTypeWithKeyword(<<"AC", "SMA", "MA", "PA">>, k, lower(call.material_name))
                   => ret.typ = <<"AC", "SMA", "MA", "PA">>[k]
        /\ (\E kw \in {"asphalt", "aspahlt", "bitumen", "bituminös"} :
                Contains(kw, lower(call.material_name))) => ret.typ = "AC"
        /\ ret.typ \in {"SMA", "MA", "PA"} =>
               \A kw \in {"asphalt", "aspahlt", "bitumen", "bituminös"} :
                   ~Contains(kw, lower(call.material_name))

\* C28 witness: 'Gussasphalt' holds the MA keyword 'gussasphalt' and is AC
C28_GussasphaltIsAC ==
    /\ Returned("parse_material_input")
    /\ call.material_name = "Gussasphalt"
    /\ AnyIn(ASPHALT_TYPES["MA"].fuzzy_matches, lower(call.material_name))
    /\ ret.quelle = "fuzzy"
    /\ ret.typ = "AC"

\* the code at position k is the first of the order with a name variant in h
FirstLayerWithVariant(order, k, h) ==
    /\ AnyIn(LAYER_CODES[order[k]].name_varianten, h)
    /\ \A j \in 1..(k - 1) : ~AnyIn(LAYER_CODES[order[j]].name_varianten, h)

\* C29: the layer derived from the layer hint is the first of T, B, D, TD
\* with a name variant in the lower-cased hint, and never TD: a hint with
\* 'tragdeck' has 'trag', so 'Tragdeckschicht' gives T and the keyword 'Trag'.
C29_HintLayerFirstInOrderNeverTD ==
    ( /\ Returned("parse_material_input")
      /\ ret.quelle # "bezeichnung"
      /\ call.schicht_name \notin {NONE, ""} ) =>
        /\ \A k \in 1..4 :
               FirstLayerWithVariant(<<"T", "B", "D", "TD">>, k, lower(call.schicht_name))
                   => /\ ret.schicht = <<"T", "B", "D", "TD">>[k]
                      /\ ret.schicht_epd_muss_enthalten
                             = LAYER_CODES[ret.schicht].epd_muss_enthalten
        /\ ret.schicht # "TD"
        /\ Contains("tragdeck", lower(call.schicht_name)) =>
               (ret.schicht = "T" /\ ret.schicht_epd_muss_enthalten = "Trag")

\* C29 witness: the hint 'Tragdeckschicht' for the material 'Asphalt'
C29_TragdeckschichtIsT ==
    /\ Returned("parse_material_input")
    /\ call.material_name = "Asphalt"
    /\ call.schicht_name = "Tragdeckschicht"
    /\ AnyIn(LAYER_CODES["TD"].name_varianten, lower(call.schicht_name))
    /\ ret.schicht = "T"
    /\ ret.schicht_epd_muss_enthalten = "Trag"

\* the letter of the upper-cased word at position i, "" beyond its end
LetterAt(word, i) == IF i <= Len(word) THEN CharAt(upper(word), i) ELSE ""

\* the layer code the word begins with: TD, else the letter T, B or D
LeadingLayer(word) ==
    IF StartsWithAt(upper(word), 1, "TD") THEN "TD"
    ELSE IF LetterAt(word, 1) \in {"T", "B", "D"} THEN LetterAt(word, 1)
    ELSE NONE

\* the load class that follows it: the next letter after any blanks when it
\* is S, N or L
FollowingLoad(word) ==
    With(SkipSpace(word, IF LeadingLayer(word) = NONE THEN 1
                         ELSE 1 + Len(LeadingLayer(word))),
         LAMBDA i : IF LetterAt(word, i) \in {"S", "N", "L"} THEN LetterAt(word, i) ELSE NONE)

\* C30: the grammar is matched as a prefix of the upper-cased text: after
\* type and grain the letters that follow are consumed as the layer code
\* when they are T, B, D (or TD) and the next letter as the load class when
\* it is S, N or L, also at the beginning of a word; what follows the
\* consumed prefix changes neither type, grain, layer nor load, and the
\* layer hint is not read.
C30_GrammarIsPrefixMatch ==
    (Returned("parse_material_input") /\ call.word # NONE) =>
        /\ ret.quelle = "bezeichnung"
        /\ ret.typ = call.typ
        /\ ret.groesstkorn_mm = call.grain
        /\ ret.schicht = ImpliedLayer(call.typ, LeadingLayer(call.word))
        /\ ret.beanspruchung = FollowingLoad(call.word)

\* C30 witness: 'AC 16 Tragschicht' has the layer T and no load class
C30_TragschichtGivesT ==
    /\ Returned("parse_material_input")
    /\ call.material_name = "AC 16 Tragschicht"
    /\ ret.typ = "AC"
    /\ ret.groesstkorn_mm = 16
    /\ ret.schicht = "T"
    /\ ret.schicht_epd_muss_enthalten = "Trag"
    /\ ret.beanspruchung = NONE

=========================================================================
